---- MODULE Spec2Model ----
(***************************************************************************)
(* Artifact execution and rendering pipeline of the artifacts gallery:     *)
(* the runner's dispatch (ArtifactRunner.loadArtifact), its content        *)
(* heuristics, the SVG and Mermaid renderers and the editor's type         *)
(* detection.  Artifact code is a sequence of text fragments; every        *)
(* heuristic works on the characters of the concatenated text, as          *)
(* String.includes / RegExp.test do.                                       *)
(***************************************************************************)
EXTENDS Integers, Sequences, FiniteSets, TLC

(***************************************************************************)
(* Bounds                                                                  *)
(***************************************************************************)
\* longest artifact code, in fragments
MaxTokens == 2

(***************************************************************************)
(* Text: strings as sequences of one-character strings                     *)
(***************************************************************************)
\* the text fragments artifact codes are built from, with their characters
TokenChars ==
  [t \in {"<svg>", "</svg>", "<SVG a>", "<rect></rect>", "<path/>", "<!--",
          "graph TD", "graph;", "function", "export default ", "\n", "x"} |->
     CASE t = "<svg>"           -> <<"<", "s", "v", "g", ">">>
       [] t = "</svg>"          -> <<"<", "/", "s", "v", "g", ">">>
       [] t = "<SVG a>"         -> <<"<", "S", "V", "G", " ", "a", ">">>
       [] t = "<rect></rect>"   -> <<"<", "r", "e", "c", "t", ">", "<", "/", "r", "e", "c", "t", ">">>
       [] t = "<path/>"         -> <<"<", "p", "a", "t", "h", "/", ">">>
       [] t = "<!--"            -> <<"<", "!", "-", "-">>
       [] t = "graph TD"        -> <<"g", "r", "a", "p", "h", " ", "T", "D">>
       [] t = "graph;"          -> <<"g", "r", "a", "p", "h", ";">>
       [] t = "function"        -> <<"f", "u", "n", "c", "t", "i", "o", "n">>
       [] t = "export default " -> <<"e", "x", "p", "o", "r", "t", " ", "d", "e", "f", "a", "u", "l", "t", " ">>
       [] t = "\n"              -> <<"\n">>
       [] t = "x"               -> <<"x">>]

Tokens == DOMAIN TokenChars

\* every artifact code of at most n fragments
CodesUpTo(n) == UNION {[1..k -> Tokens] : k \in 0..n}

\* the text of a code: its fragments concatenated
RECURSIVE Text(_)
Text(code) ==
  IF code = <<>> THEN <<>>
  ELSE TokenChars[Head(code)] \o Text(Tail(code))

\* String.prototype.includes
Includes(s, p) ==
  \E i \in 1..(Len(s) - Len(p) + 1) : SubSeq(s, i, i + Len(p) - 1) = p

\* whitespace as matched by \s and removed by trim()
IsSpace(c) == c \in {" ", "\n", "\t"}

\* String.prototype.trim
Trim(s) ==
  LET keep == {i \in 1..Len(s) : ~IsSpace(s[i])}
  IN  IF keep = {} THEN <<>>
      ELSE LET lo == CHOOSE i \in keep : \A j \in keep : i <= j
               hi == CHOOSE i \in keep : \A j \in keep : i >= j
           IN  SubSeq(s, lo, hi)

UpperToLower ==
  [c \in {"A", "B", "C", "D", "E", "F", "G", "H", "I", "J", "K", "L", "M",
          "N", "O", "P", "Q", "R", "S", "T", "U", "V", "W", "X", "Y", "Z"} |->
     CASE c = "A" -> "a" [] c = "B" -> "b" [] c = "C" -> "c" [] c = "D" -> "d"
       [] c = "E" -> "e" [] c = "F" -> "f" [] c = "G" -> "g" [] c = "H" -> "h"
       [] c = "I" -> "i" [] c = "J" -> "j" [] c = "K" -> "k" [] c = "L" -> "l"
       [] c = "M" -> "m" [] c = "N" -> "n" [] c = "O" -> "o" [] c = "P" -> "p"
       [] c = "Q" -> "q" [] c = "R" -> "r" [] c = "S" -> "s" [] c = "T" -> "t"
       [] c = "U" -> "u" [] c = "V" -> "v" [] c = "W" -> "w" [] c = "X" -> "x"
       [] c = "Y" -> "y" [] c = "Z" -> "z"]

\* case folding of the regular expressions' i flag
Lower(s) ==
  [i \in 1..Len(s) |-> IF s[i] \in DOMAIN UpperToLower THEN UpperToLower[s[i]] ELSE s[i]]

\* [A-Za-z0-9]
IsAlnum(c) ==
  \/ c \in DOMAIN UpperToLower
  \/ c \in {UpperToLower[u] : u \in DOMAIN UpperToLower}
  \/ c \in {"0", "1", "2", "3", "4", "5", "6", "7", "8", "9"}

\* /^kw/i : the text starts with the keyword, whatever the case
StartsWithCI(s, kw) ==
  /\ Len(s) >= Len(kw)
  /\ Lower(SubSeq(s, 1, Len(kw))) = kw

\* /^kw\s+[A-Za-z0-9]/i
StartsWithKeywordAndNode(s, kw) ==
  /\ StartsWithCI(s, kw)
  /\ \E j \in (Len(kw) + 2)..Len(s) :
       /\ IsAlnum(s[j])
       /\ \A k \in (Len(kw) + 1)..(j - 1) : IsSpace(s[k])

\* /<svg\s+[^>]*>/i
MatchesSvgOpenTag(s) ==
  \E i \in 1..Len(s) :
    /\ i + 5 <= Len(s)
    /\ Lower(SubSeq(s, i, i + 3)) = <<"<", "s", "v", "g">>
    /\ IsSpace(s[i + 4])
    /\ \E j \in (i + 5)..Len(s) :
         /\ s[j] = ">"
         /\ \A k \in (i + 5)..(j - 1) : s[k] # ">"

(***************************************************************************)
(* The runner's content heuristics (ArtifactRunner.tsx)                    *)
(***************************************************************************)
\* looksLikeSvg without its two root-tag tests
looksLikeSvg_elementsOnly(content) ==
  LET trimmedContent == Trim(content)
  IN  /\ Includes(trimmedContent, <<"<">>)
      /\ Includes(trimmedContent, <<"<", "/">>)
      /\ \/ Includes(trimmedContent, <<"c", "i", "r", "c", "l", "e">>)
         \/ Includes(trimmedContent, <<"r", "e", "c", "t">>)
         \/ Includes(trimmedContent, <<"p", "a", "t", "h">>)
         \/ Includes(trimmedContent, <<"p", "o", "l", "y", "g", "o", "n">>)

looksLikeSvg(content) ==
  LET trimmedContent == Trim(content)
  IN  \/ Includes(trimmedContent, <<"<", "s", "v", "g">>)
      \/ MatchesSvgOpenTag(trimmedContent)
      \/ /\ Includes(trimmedContent, <<"<">>)
         /\ Includes(trimmedContent, <<"<", "/">>)
         /\ \/ Includes(trimmedContent, <<"c", "i", "r", "c", "l", "e">>)
            \/ Includes(trimmedContent, <<"r", "e", "c", "t">>)
            \/ Includes(trimmedContent, <<"p", "a", "t", "h">>)
            \/ Includes(trimmedContent, <<"p", "o", "l", "y", "g", "o", "n">>)

looksLikeMermaid(content) ==
  LET trimmedContent == Trim(content)
  IN  \/ StartsWithKeywordAndNode(trimmedContent, <<"g", "r", "a", "p", "h">>)
      \/ StartsWithKeywordAndNode(trimmedContent, <<"f", "l", "o", "w", "c", "h", "a", "r", "t">>)
      \/ StartsWithCI(trimmedContent, <<"s", "e", "q", "u", "e", "n", "c", "e", "d", "i", "a", "g", "r", "a", "m">>)
      \/ StartsWithCI(trimmedContent, <<"c", "l", "a", "s", "s", "d", "i", "a", "g", "r", "a", "m">>)
      \/ StartsWithCI(trimmedContent, <<"s", "t", "a", "t", "e", "d", "i", "a", "g", "r", "a", "m">>)
      \/ StartsWithCI(trimmedContent, <<"e", "r", "d", "i", "a", "g", "r", "a", "m">>)
      \/ StartsWithCI(trimmedContent, <<"j", "o", "u", "r", "n", "e", "y">>)
      \/ StartsWithCI(trimmedContent, <<"g", "a", "n", "t", "t">>)
      \/ StartsWithCI(trimmedContent, <<"p", "i", "e">>)
      \/ StartsWithCI(trimmedContent, <<"m", "i", "n", "d", "m", "a", "p">>)

\* the positive indicators of shouldProcessAsReact (its return expression)
reactIndicators(content) ==
  LET trimmedContent == Trim(content)
  IN  \/ Includes(trimmedContent, <<"i", "m", "p", "o", "r", "t", " ", "R", "e", "a", "c", "t">>)
      \/ Includes(trimmedContent, <<"f", "u", "n", "c", "t", "i", "o", "n">>)
      \/ Includes(trimmedContent, <<"c", "l", "a", "s", "s">>)
      \/ Includes(trimmedContent, <<"e", "x", "p", "o", "r", "t", " ", "d", "e", "f", "a", "u", "l", "t">>)
      \/ Includes(trimmedContent, <<"u", "s", "e", "S", "t", "a", "t", "e">>)
      \/ /\ Includes(trimmedContent, <<"r", "e", "t", "u", "r", "n">>)
         /\ Includes(trimmedContent, <<"<">>)
         /\ Includes(trimmedContent, <<"/", ">">>)

shouldProcessAsReact(content) ==
  LET trimmedContent == Trim(content)
  IN  IF looksLikeSvg(content) \/ looksLikeMermaid(content) THEN FALSE
      ELSE IF Includes(trimmedContent, <<"<", "!", "-", "-">>) THEN FALSE
      ELSE reactIndicators(content)

(***************************************************************************)
(* The editor's type detection (ArtifactEditor)                            *)
(***************************************************************************)
\* detectType's SVG test
detectsSvg(trimmedCode) ==
  \/ Includes(trimmedCode, <<"<", "s", "v", "g">>)
  \/ MatchesSvgOpenTag(trimmedCode)
  \/ /\ Includes(trimmedCode, <<"<", "!", "-", "-">>)
     /\ \/ Includes(trimmedCode, <<"<", "r", "e", "c", "t">>)
        \/ Includes(trimmedCode, <<"<", "c", "i", "r", "c", "l", "e">>)
        \/ Includes(trimmedCode, <<"<", "p", "a", "t", "h">>)
        \/ Includes(trimmedCode, <<"<", "g">>)
        \/ Includes(trimmedCode, <<"<", "p", "o", "l", "y", "g", "o", "n">>)

\* /^pie\s+title/i
StartsWithPieTitle(s) ==
  /\ StartsWithCI(s, <<"p", "i", "e">>)
  /\ \E j \in 5..(Len(s) - 4) :
       /\ Lower(SubSeq(s, j, j + 4)) = <<"t", "i", "t", "l", "e">>
       /\ \A k \in 4..(j - 1) : IsSpace(s[k])

\* detectType's mermaidPatterns.some(...)
detectsMermaid(trimmedCode) ==
  \/ StartsWithKeywordAndNode(trimmedCode, <<"g", "r", "a", "p", "h">>)
  \/ StartsWithKeywordAndNode(trimmedCode, <<"f", "l", "o", "w", "c", "h", "a", "r", "t">>)
  \/ StartsWithCI(trimmedCode, <<"s", "e", "q", "u", "e", "n", "c", "e", "d", "i", "a", "g", "r", "a", "m">>)
  \/ StartsWithCI(trimmedCode, <<"c", "l", "a", "s", "s", "d", "i", "a", "g", "r", "a", "m">>)
  \/ StartsWithCI(trimmedCode, <<"s", "t", "a", "t", "e", "d", "i", "a", "g", "r", "a", "m">>)
  \/ StartsWithCI(trimmedCode, <<"s", "t", "a", "t", "e", "d", "i", "a", "g", "r", "a", "m", "-", "v", "2">>)
  \/ StartsWithCI(trimmedCode, <<"e", "r", "d", "i", "a", "g", "r", "a", "m">>)
  \/ StartsWithCI(trimmedCode, <<"j", "o", "u", "r", "n", "e", "y">>)
  \/ StartsWithCI(trimmedCode, <<"g", "a", "n", "t", "t">>)
  \/ StartsWithCI(trimmedCode, <<"p", "i", "e">>)
  \/ StartsWithPieTitle(trimmedCode)
  \/ StartsWithCI(trimmedCode, <<"m", "i", "n", "d", "m", "a", "p">>)

\* detectType's React test
detectsReact(trimmedCode) ==
  /\ ~Includes(trimmedCode, <<"<", "!", "-", "-">>)
  /\ \/ Includes(trimmedCode, <<"i", "m", "p", "o", "r", "t", " ", "R", "e", "a", "c", "t">>)
     \/ /\ Includes(trimmedCode, <<"f", "u", "n", "c", "t", "i", "o", "n">>)
        /\ Includes(trimmedCode, <<"r", "e", "t", "u", "r", "n">>)
     \/ /\ Includes(trimmedCode, <<"c", "l", "a", "s", "s">>)
        /\ Includes(trimmedCode, <<"e", "x", "t", "e", "n", "d", "s">>)
     \/ Includes(trimmedCode, <<"u", "s", "e", "S", "t", "a", "t", "e">>)
     \/ Includes(trimmedCode, <<"u", "s", "e", "E", "f", "f", "e", "c", "t">>)
     \/ Includes(trimmedCode, <<"e", "x", "p", "o", "r", "t", " ", "d", "e", "f", "a", "u", "l", "t">>)

\* detectType testing the diagram patterns before the SVG test
detectType_mermaidFirst(codeContent) ==
  LET trimmedCode == Trim(codeContent)
  IN  IF detectsMermaid(trimmedCode) THEN "mermaid"
      ELSE IF detectsSvg(trimmedCode) THEN "svg"
      ELSE IF detectsReact(trimmedCode) THEN "react"
      ELSE "null"

\* the value detectType returns: "svg", "mermaid", "react" or "null"
detectType(codeContent) ==
  LET trimmedCode == Trim(codeContent)
  IN  IF detectsSvg(trimmedCode) THEN "svg"
      ELSE IF detectsMermaid(trimmedCode) THEN "mermaid"
      ELSE IF detectsReact(trimmedCode) THEN "react"
      ELSE "null"

(***************************************************************************)
(* State                                                                   *)
(***************************************************************************)
VARIABLES
  store,    \* the persisted artifacts: id -> [type, code, beh]
  route,    \* the router's location: [page, id]
  runner,   \* the mounted ArtifactRunner's state and the position of its loadArtifact
  child,    \* the renderer mounted inside the runner's artifact-container
  shell,    \* "ok", or "errorPage" once the route's errorElement has replaced the page
  tried,    \* the renderer paths the current render pass has invoked, in order
  passes,   \* render passes begun by the mounted ArtifactRunner
  editor,   \* the mounted ArtifactEditor's state
  exec,     \* a component source and what executeComponentCode makes of it
  deletion, \* the calls of deleteArtifact made by the artifact view, and the outcome of the last
  gallery   \* the mounted ArtifactGallery's folder of the URL and its import message

vars == <<store, route, runner, child, shell, tried, passes, editor, exec, deletion, gallery>>

Types == {"react", "svg", "mermaid"}

\* the id of a route whose artifact is not in the store
MissingId == 0

\* String.includes('export default') followed by \s+, the marker the rewrite
\* turns into an assignment to componentToRender
HasDefaultExport(text) ==
  \E i \in 1..Len(text) :
    /\ i + 14 <= Len(text)
    /\ SubSeq(text, i, i + 13) = <<"e", "x", "p", "o", "r", "t", " ", "d", "e", "f", "a", "u", "l", "t">>
    /\ IsSpace(text[i + 14])

\* What transpiling and running a code does, which its text alone does not
\* tell: "component" (binds componentToRender to a component that renders),
\* "throwsOnRender" (binds it to a component whose render throws), "broken"
\* (transpilation or execution throws, or no component is bound).  The
\* wrapper returns a component only through componentToRender: its scan of
\* Object.keys(this) runs on the empty object the function is applied to.
Behaviours(code) ==
  IF HasDefaultExport(Text(code)) THEN {"component", "throwsOnRender", "broken"}
  ELSE {"broken"}

ArtifactsUpTo(n) ==
  {[type |-> t, code |-> c, beh |-> b] :
     t \in Types, c \in CodesUpTo(n), b \in {"component", "throwsOnRender", "broken"}}

Artifacts == {a \in ArtifactsUpTo(MaxTokens) : a.beh \in Behaviours(a.code)}

NoElement == [kind |-> "none", id |-> MissingId]

\* the useState initial values of ArtifactRunner, its effect not yet run
FreshRunner ==
  [pc |-> "start", loading |-> TRUE, error |-> "", artifact |-> MissingId,
   renderedComponent |-> NoElement, renderError |-> "null", showDeleteConfirm |-> FALSE]

Unmounted ==
  [pc |-> "unmounted", loading |-> TRUE, error |-> "", artifact |-> MissingId,
   renderedComponent |-> NoElement, renderError |-> "null", showDeleteConfirm |-> FALSE]

\* No renderer mounted.  Besides its kind, the artifact whose code is its code
\* prop, the position of its effect, and its error and markup state, a
\* renderer child records: stale, the renderDiagram calls still pending for
\* a code prop that has changed since; from, the artifact whose code the
\* error and markup were set from; failed, the phase of renderDiagram whose
\* failure set the error; configured and sanitized, whether the last run of
\* SVGRenderer's effect added its DOMPurify hook and called DOMPurify.sanitize.
NoChild ==
  [kind |-> "none", id |-> MissingId, phase |-> "done", error |-> "null", markup |-> "",
   stale |-> {}, from |-> MissingId, failed |-> "none", configured |-> FALSE,
   sanitized |-> FALSE]

\* the useState initial values of ArtifactEditor on /edit/:id
FreshEditor ==
  [type |-> "react", code |-> <<>>, autodetectType |-> TRUE, loading |-> TRUE,
   error |-> "", detectPending |-> FALSE]

ClosedEditor ==
  [type |-> "react", code |-> <<>>, autodetectType |-> TRUE, loading |-> FALSE,
   error |-> "", detectPending |-> FALSE]

\* no component source is being executed on its own
NoExec == [pc |-> "none"]

\* deleteArtifact has not been called
NoDeletion == [calls |-> 0, outcome |-> "none"]

\* the useState initial values of ArtifactGallery at the root view (no folder
\* parameter in the URL), no file imported
RootGallery ==
  [loading |-> TRUE, currentFolder |-> <<>>, importMessage |-> "null",
   imported |-> [parse |-> "none", replaced |-> FALSE, threw |-> "null"]]

(***************************************************************************)
(* ArtifactRunner: dispatch and execution                                  *)
(***************************************************************************)
\* the messages the failed execution can carry before the catch blocks look at the code
RawErrors(code) ==
  IF Trim(Text(code)) = <<>> THEN {"Failed to transform component code"}
  ELSE {"SyntaxError: unexpected token", "No component found in the artifact code",
        "ReferenceError: x is not defined"}

\* executeComponentCode: the element it returns, or the message of the error it throws
executeComponentCode(code, beh) ==
  IF beh \in {"component", "throwsOnRender"}
  THEN {[ok |-> TRUE, message |-> "null"]}
  ELSE {[ok |-> FALSE,
         message |->
           IF looksLikeSvg(Text(code))
           THEN "This appears to be SVG code. Try changing the artifact type to \"SVG Image\"."
           ELSE IF looksLikeMermaid(Text(code))
           THEN "This appears to be Mermaid diagram code. Try changing the artifact type to \"Mermaid Diagram\"."
           ELSE IF Includes(Text(code), <<"<", "!", "-", "-">>)
           THEN "HTML comments (<!-- -->) are not supported in React components. If this is SVG code, change the artifact type to \"SVG Image\"."
           ELSE raw] : raw \in RawErrors(code)}

\* selectPath without the Mermaid fallback branch
selectPath_noMermaid(type, content) ==
  IF type = "svg" THEN "svg"
  ELSE IF type = "mermaid" THEN "mermaid"
  ELSE IF shouldProcessAsReact(content) THEN "react"
  ELSE IF looksLikeSvg(content) THEN "svg"
  ELSE "react"

\* selectPath whose last resort is the SVG renderer instead of execution
selectPath_lastResortSvg(type, content) ==
  IF type = "svg" THEN "svg"
  ELSE IF type = "mermaid" THEN "mermaid"
  ELSE IF shouldProcessAsReact(content) THEN "react"
  ELSE IF looksLikeSvg(content) THEN "svg"
  ELSE IF looksLikeMermaid(content) THEN "mermaid"
  ELSE "svg"

\* the branch of loadArtifact's type test that renders the artifact
selectPath(type, content) ==
  IF type = "svg" THEN "svg"
  ELSE IF type = "mermaid" THEN "mermaid"
  ELSE IF shouldProcessAsReact(content) THEN "react"
  ELSE IF looksLikeSvg(content) THEN "svg"
  ELSE IF looksLikeMermaid(content) THEN "mermaid"
  ELSE "react"

\* renderArtifact whose catch retries a failed execution on the SVG renderer
\* and then on the Mermaid renderer
renderArtifact_retry(a) ==
  LET path == selectPath(a.type, Text(a.code))
  IN  IF path = "react"
      THEN {IF r.ok
            THEN [tried |-> <<"react">>, ok |-> TRUE, kind |-> "react", message |-> "null"]
            ELSE [tried |-> <<"react", "svg", "mermaid">>, ok |-> TRUE, kind |-> "mermaid",
                  message |-> "null"] :
              r \in executeComponentCode(a.code, a.beh)}
      ELSE {[tried |-> <<path>>, ok |-> TRUE, kind |-> path, message |-> "null"]}

\* the inner try/catch of loadArtifact: the paths invoked, and the element
\* set as renderedComponent or the message set as renderError
renderArtifact(a) ==
  LET path == selectPath(a.type, Text(a.code))
  IN  IF path = "react"
      THEN {[tried |-> <<"react">>, ok |-> r.ok, kind |-> "react", message |-> r.message] :
              r \in executeComponentCode(a.code, a.beh)}
      ELSE {[tried |-> <<path>>, ok |-> TRUE, kind |-> path, message |-> "null"]}

\* the text of the messages of the errors executeComponentCode throws
MessageText(message) ==
  CASE message = "Failed to transform component code"
         -> <<"F", "a", "i", "l", "e", "d", " ", "t", "o", " ", "t", "r", "a", "n", "s", "f",
             "o", "r", "m", " ", "c", "o", "m", "p", "o", "n", "e", "n", "t", " ", "c", "o", "d",
             "e">>
    [] message = "SyntaxError: unexpected token" -> <<"U", "n", "e", "x", "p", "e", "c", "t",
        "e", "d", " ", "t", "o", "k", "e", "n">>
    [] message = "No component found in the artifact code"
         -> <<"N", "o", " ", "c", "o", "m", "p", "o", "n", "e", "n", "t", " ", "f", "o", "u",
             "n", "d", " ", "i", "n", " ", "t", "h", "e", " ", "a", "r", "t", "i", "f", "a", "c",
             "t", " ", "c", "o", "d", "e">>
    [] message = "ReferenceError: x is not defined" -> <<"x", " ", "i", "s", " ", "n", "o", "t",
        " ", "d", "e", "f", "i", "n", "e", "d">>
    [] message = "This appears to be SVG code. Try changing the artifact type to \"SVG Image\"."
         -> <<"T", "h", "i", "s", " ", "a", "p", "p", "e", "a", "r", "s", " ", "t", "o", " ",
             "b", "e", " ", "S", "V", "G", " ", "c", "o", "d", "e", ".", " ", "T", "r", "y", " ",
             "c", "h", "a", "n", "g", "i", "n", "g", " ", "t", "h", "e", " ", "a", "r", "t", "i",
             "f", "a", "c", "t", " ", "t", "y", "p", "e", " ", "t", "o", " ", "\"", "S", "V",
             "G", " ", "I", "m", "a", "g", "e", "\"", ".">>
    [] message = "This appears to be Mermaid diagram code. Try changing the artifact type to \"Mermaid Diagram\"."
         -> <<"T", "h", "i", "s", " ", "a", "p", "p", "e", "a", "r", "s", " ", "t", "o", " ",
             "b", "e", " ", "M", "e", "r", "m", "a", "i", "d", " ", "d", "i", "a", "g", "r", "a",
             "m", " ", "c", "o", "d", "e", ".", " ", "T", "r", "y", " ", "c", "h", "a", "n", "g",
             "i", "n", "g", " ", "t", "h", "e", " ", "a", "r", "t", "i", "f", "a", "c", "t", " ",
             "t", "y", "p", "e", " ", "t", "o", " ", "\"", "M", "e", "r", "m", "a", "i", "d",
             " ", "D", "i", "a", "g", "r", "a", "m", "\"", ".">>
    [] message = "HTML comments (<!-- -->) are not supported in React components. If this is SVG code, change the artifact type to \"SVG Image\"."
         -> <<"H", "T", "M", "L", " ", "c", "o", "m", "m", "e", "n", "t", "s", " ", "(", "<",
             "!", "-", "-", " ", "-", "-", ">", ")", " ", "a", "r", "e", " ", "n", "o", "t", " ",
             "s", "u", "p", "p", "o", "r", "t", "e", "d", " ", "i", "n", " ", "R", "e", "a", "c",
             "t", " ", "c", "o", "m", "p", "o", "n", "e", "n", "t", "s", ".", " ", "I", "f", " ",
             "t", "h", "i", "s", " ", "i", "s", " ", "S", "V", "G", " ", "c", "o", "d", "e", ",",
             " ", "c", "h", "a", "n", "g", "e", " ", "t", "h", "e", " ", "a", "r", "t", "i", "f",
             "a", "c", "t", " ", "t", "y", "p", "e", " ", "t", "o", " ", "\"", "S", "V", "G",
             " ", "I", "m", "a", "g", "e", "\"", ".">>

\* the words the error box of the render output looks for in renderError,
\* one per guidance block
GuidanceWords ==
  {<<"l", "u", "c", "i", "d", "e", "-", "r", "e", "a", "c", "t">>, <<"S", "V", "G">>, <<"M", "e",
      "r", "m", "a", "i", "d">>, <<"H", "T", "M", "L", " ", "c", "o", "m", "m", "e", "n", "t",
      "s">>}

\* the guidance blocks shown under the message: renderError.includes(word)
guidanceShown(renderError) == {word \in GuidanceWords : Includes(renderError, word)}

(***************************************************************************)
(* Actions of the artifact view                                            *)
(***************************************************************************)
\* the gallery links to /view/:id: ArtifactRunner is mounted
OpenView(id) ==
  /\ route.page = "gallery"
  /\ route' = [page |-> "view", id |-> id]
  /\ runner' = FreshRunner
  /\ child' = NoChild
  /\ tried' = <<>>
  /\ passes' = 0
  /\ UNCHANGED <<store, shell, editor>>
  /\ UNCHANGED <<exec, deletion, gallery>>

\* the effect on [id, getArtifact] runs loadArtifact up to its await
LoadArtifactStart ==
  /\ route.page = "view"
  /\ shell = "ok"
  /\ runner.pc = "start"
  /\ runner' = [runner EXCEPT !.pc = "awaitGet"]
  /\ tried' = <<>>
  /\ passes' = passes + 1
  /\ UNCHANGED <<store, route, child, shell, editor>>
  /\ UNCHANGED <<exec, deletion, gallery>>

\* loadArtifact after getArtifact resolved, to the end of its finally block
LoadArtifactResume ==
  /\ route.page = "view"
  /\ shell = "ok"
  /\ runner.pc = "awaitGet"
  /\ IF route.id \notin DOMAIN store
     THEN /\ runner' = [runner EXCEPT !.pc = "done", !.error = "Artifact not found",
                                      !.loading = FALSE]
          /\ tried' = tried
     ELSE \E r \in renderArtifact(store[route.id]) :
            /\ tried' = r.tried
            /\ runner' =
                 IF r.ok
                 THEN [runner EXCEPT !.pc = "done", !.artifact = route.id, !.loading = FALSE,
                                     !.renderedComponent = [kind |-> r.kind, id |-> route.id]]
                 ELSE [runner EXCEPT !.pc = "done", !.artifact = route.id, !.loading = FALSE,
                                     !.renderError = r.message]
  /\ UNCHANGED <<store, route, child, shell, passes, editor>>
  /\ UNCHANGED <<exec, deletion, gallery>>

\* the renderDiagram call of a MermaidRenderer that is awaiting mermaid when
\* the code prop changes: nothing cancels it
Superseded(c) ==
  IF c.kind = "mermaid" /\ c.phase \in {"parsing", "rendering"}
  THEN {[id |-> c.id, phase |-> c.phase]}
  ELSE {}

\* what ArtifactRunner's render output puts in the artifact-container
Displayed(r) ==
  IF r.loading \/ r.error # "" \/ r.renderError # "null" THEN NoElement
  ELSE r.renderedComponent

\* the host renders the runner's output: the displayed element is mounted
\* (an executed component's function runs here), updated or unmounted
HostCommit ==
  /\ route.page = "view"
  /\ shell = "ok"
  /\ runner.pc = "done"
  /\ LET d == Displayed(runner)
     IN  /\ <<child.kind, child.id>> # <<d.kind, d.id>>
         /\ IF d.kind = "react" /\ store[d.id].beh = "throwsOnRender"
            THEN /\ shell' = "errorPage"
                 /\ child' = NoChild
            ELSE /\ shell' = shell
                 /\ child' =
                      IF d.kind = "none" THEN NoChild
                      ELSE IF d.kind = "react"
                      THEN [NoChild EXCEPT !.kind = "react", !.id = d.id,
                                           !.markup = "component"]
                      ELSE IF d.kind = child.kind
                      THEN IF store[d.id].code = store[child.id].code
                           THEN [child EXCEPT !.id = d.id]
                           ELSE [child EXCEPT !.id = d.id, !.phase = "mounted",
                                              !.stale = @ \cup Superseded(child)]
                      ELSE [NoChild EXCEPT !.kind = d.kind, !.id = d.id, !.phase = "mounted"]
  /\ UNCHANGED <<store, route, runner, tried, passes, editor>>
  /\ UNCHANGED <<exec, deletion, gallery>>

\* SVGRenderer's effect with the DOMPurify hook added before the validation
renderSvg_hookFirst(code) ==
  IF \/ ~Includes(code, <<"<", "s", "v", "g">>)
     \/ ~Includes(code, <<"<", "/", "s", "v", "g", ">">>)
  THEN [error |-> "Invalid SVG: Missing <svg> tags", markup |-> "", configured |-> TRUE,
        sanitized |-> FALSE]
  ELSE [error |-> "null", markup |-> "sanitized", configured |-> TRUE, sanitized |-> TRUE]

\* the try/catch of SVGRenderer's effect: the validation throws before
\* DOMPurify.addHook and DOMPurify.sanitize are reached
renderSvg(code) ==
  IF \/ ~Includes(code, <<"<", "s", "v", "g">>)
     \/ ~Includes(code, <<"<", "/", "s", "v", "g", ">">>)
  THEN [error |-> "Invalid SVG: Missing <svg> tags", markup |-> "", configured |-> FALSE,
        sanitized |-> FALSE]
  ELSE [error |-> "null", markup |-> "sanitized", configured |-> TRUE, sanitized |-> TRUE]

\* SVGRenderer's effect on [code]
SVGRendererEffect ==
  /\ shell = "ok"
  /\ child.kind = "svg"
  /\ child.phase = "mounted"
  /\ LET r == renderSvg(Text(store[child.id].code))
     IN  child' = [child EXCEPT !.phase = "done", !.error = r.error, !.markup = r.markup,
                                !.configured = r.configured, !.sanitized = r.sanitized,
                                !.from = child.id]
  /\ UNCHANGED <<store, route, runner, shell, tried, passes, editor>>
  /\ UNCHANGED <<exec, deletion, gallery>>

\* the messages of the errors mermaid.parse and mermaid.render reject with;
\* "" is an error without a message
ParseErrorMessages == {"Parse error on line 1", ""}
RenderErrorMessages == {"Cannot read properties of undefined", ""}

\* caughtError without the fallback message
caughtError_noFallback(message) == message

\* err.message || 'Failed to render Mermaid diagram' in the catch of renderDiagram
caughtError(message) ==
  IF message = "" THEN "Failed to render Mermaid diagram" ELSE message

\* the renderDiagram calls of the child that await mermaid in the phase: the
\* call for the current code prop and the superseded ones
PendingCalls(c, phase) ==
  {[id |-> c.id, current |-> TRUE] : x \in IF c.phase = phase THEN {1} ELSE {}}
    \cup {[id |-> s.id, current |-> FALSE] : s \in {t \in c.stale : t.phase = phase}}

\* the call goes from one await to the next
Advanced(c, call, phase, next) ==
  IF call.current THEN [c EXCEPT !.phase = next]
  ELSE [c EXCEPT !.stale = (@ \ {[id |-> call.id, phase |-> phase]})
                             \cup {[id |-> call.id, phase |-> next]}]

\* the call has run to its end
Ended(c, call, phase) ==
  IF call.current THEN [c EXCEPT !.phase = "done"]
  ELSE [c EXCEPT !.stale = @ \ {[id |-> call.id, phase |-> phase]}]

\* the catch block of renderDiagram, for a rejection in either phase
Caught(c, call, phase, message) ==
  [c EXCEPT !.error = caughtError(message), !.markup = "", !.from = call.id,
            !.failed = phase]

\* MermaidRenderer's effect on [code]: renderDiagram up to its first await
RenderDiagramStart ==
  /\ shell = "ok"
  /\ child.kind = "mermaid"
  /\ child.phase = "mounted"
  /\ child' =
       IF Trim(Text(store[child.id].code)) = <<>>
       THEN [child EXCEPT !.phase = "done", !.error = "No diagram code provided",
                          !.from = child.id, !.failed = "none"]
       ELSE [child EXCEPT !.phase = "parsing"]
  /\ UNCHANGED <<store, route, runner, shell, tried, passes, editor>>
  /\ UNCHANGED <<exec, deletion, gallery>>

\* mermaid.parse settles for a pending call: renderDiagram goes on to its
\* second await, or to its catch
RenderDiagramParsed ==
  /\ shell = "ok"
  /\ child.kind = "mermaid"
  /\ \E call \in PendingCalls(child, "parsing") :
       \E parsed \in BOOLEAN, message \in ParseErrorMessages :
         child' =
           IF parsed THEN Advanced(child, call, "parsing", "rendering")
           ELSE Caught(Ended(child, call, "parsing"), call, "parse", message)
  /\ UNCHANGED <<store, route, runner, shell, tried, passes, editor>>
  /\ UNCHANGED <<exec, deletion, gallery>>

\* mermaid.render settles for a pending call: renderDiagram sets the svg and
\* clears the error, or goes to its catch
RenderDiagramRendered ==
  /\ shell = "ok"
  /\ child.kind = "mermaid"
  /\ \E call \in PendingCalls(child, "rendering") :
       \E rendered \in BOOLEAN, message \in RenderErrorMessages :
         child' =
           IF rendered
           THEN [Ended(child, call, "rendering") EXCEPT
                   !.error = "null", !.markup = "diagram", !.from = call.id,
                   !.failed = "none"]
           ELSE Caught(Ended(child, call, "rendering"), call, "render", message)
  /\ UNCHANGED <<store, route, runner, shell, tried, passes, editor>>
  /\ UNCHANGED <<exec, deletion, gallery>>

\* "Back to Gallery" in the artifact view, "Go to Gallery" on the error page
GoToGallery ==
  /\ route.page = "view"
  /\ runner.pc = "done"
  /\ route' = [page |-> "gallery", id |-> MissingId]
  /\ runner' = Unmounted
  /\ child' = NoChild
  /\ shell' = "ok"
  /\ tried' = <<>>
  /\ passes' = 0
  /\ UNCHANGED <<store, editor>>
  /\ UNCHANGED <<exec, deletion, gallery>>

(***************************************************************************)
(* Actions of the editor                                                   *)
(***************************************************************************)
\* the Edit button of the artifact view: navigate(`/edit/${id}`)
ClickEdit ==
  /\ route.page = "view"
  /\ shell = "ok"
  /\ runner.pc = "done"
  /\ runner.error = ""
  /\ route' = [page |-> "edit", id |-> route.id]
  /\ runner' = Unmounted
  /\ child' = NoChild
  /\ tried' = <<>>
  /\ passes' = 0
  /\ editor' = FreshEditor
  /\ UNCHANGED <<store, shell>>
  /\ UNCHANGED <<exec, deletion, gallery>>

\* the editor's loadArtifact: the form fields are set from the stored artifact
EditorLoadArtifact ==
  /\ route.page = "edit"
  /\ editor.loading
  /\ editor' =
       IF route.id \in DOMAIN store
       THEN [editor EXCEPT !.type = store[route.id].type, !.code = store[route.id].code,
                           !.loading = FALSE, !.detectPending = TRUE]
       ELSE [editor EXCEPT !.error = "Artifact not found", !.loading = FALSE]
  /\ UNCHANGED <<store, route, runner, child, shell, tried, passes>>
  /\ UNCHANGED <<exec, deletion, gallery>>

\* the effect on [code, type, autodetectType]
EditorDetectEffect ==
  /\ route.page = "edit"
  /\ editor.detectPending
  /\ editor' =
       IF ~editor.autodetectType \/ Trim(Text(editor.code)) = <<>>
       THEN [editor EXCEPT !.detectPending = FALSE]
       ELSE LET detectedType == detectType(Text(editor.code))
            IN  IF detectedType # "null" /\ detectedType # editor.type
                THEN [editor EXCEPT !.type = detectedType, !.detectPending = FALSE]
                ELSE [editor EXCEPT !.detectPending = FALSE]
  /\ UNCHANGED <<store, route, runner, child, shell, tried, passes>>
  /\ UNCHANGED <<exec, deletion, gallery>>

\* the "Auto-detect from code" checkbox
ToggleAutodetect ==
  /\ route.page = "edit"
  /\ ~editor.loading
  /\ ~editor.detectPending
  /\ editor.error = ""
  /\ editor' = [editor EXCEPT !.autodetectType = ~editor.autodetectType,
                              !.detectPending = TRUE]
  /\ UNCHANGED <<store, route, runner, child, shell, tried, passes>>
  /\ UNCHANGED <<exec, deletion, gallery>>

\* handleSave of an artifact being edited (its title is the stored, non-blank one)
EditorSave ==
  /\ route.page = "edit"
  /\ ~editor.loading
  /\ ~editor.detectPending
  /\ route.id \in DOMAIN store
  /\ IF Trim(Text(editor.code)) = <<>>
     THEN /\ editor' = [editor EXCEPT !.error = "Code is required"]
          /\ UNCHANGED <<store, route, runner, child, tried, passes>>
     ELSE /\ store' = [store EXCEPT ![route.id].type = editor.type]
          /\ route' = [page |-> "view", id |-> route.id]
          /\ runner' = FreshRunner
          /\ child' = NoChild
          /\ tried' = <<>>
          /\ passes' = 0
          /\ editor' = ClosedEditor
  /\ UNCHANGED shell
  /\ UNCHANGED <<exec, deletion, gallery>>

(***************************************************************************)
(* Specification: one stored artifact, viewed and edited                   *)
(***************************************************************************)
Init ==
  /\ store \in [{1} -> Artifacts]
  /\ route = [page |-> "gallery", id |-> MissingId]
  /\ runner = Unmounted
  /\ child = NoChild
  /\ shell = "ok"
  /\ tried = <<>>
  /\ passes = 0
  /\ editor = ClosedEditor
  /\ exec = NoExec
  /\ deletion = NoDeletion
  /\ gallery = RootGallery

Next ==
  \/ \E id \in DOMAIN store \cup {MissingId} : OpenView(id)
  \/ LoadArtifactStart
  \/ LoadArtifactResume
  \/ HostCommit
  \/ SVGRendererEffect
  \/ RenderDiagramStart
  \/ RenderDiagramParsed
  \/ RenderDiagramRendered
  \/ GoToGallery
  \/ ClickEdit
  \/ EditorLoadArtifact
  \/ EditorDetectEffect
  \/ ToggleAutodetect
  \/ EditorSave

Spec == Init /\ [][Next]_vars

(***************************************************************************)
(* Deleting the viewed artifact                                            *)
(***************************************************************************)
\* calls of deleteArtifact one run makes
MaxDeletes == 2

\* the store's deleteArtifact: the artifact of that id is filtered out
deleteArtifact(artifacts, id) == [i \in DOMAIN artifacts \ {id} |-> artifacts[i]]

\* the main return of ArtifactRunner is displayed: not loading, no error
\* view, the application shell not replaced by the error page
MainViewShown ==
  /\ route.page = "view"
  /\ shell = "ok"
  /\ runner.pc = "done"
  /\ ~runner.loading
  /\ runner.error = ""

\* the display has nothing left to commit or to render
ChildSettled ==
  /\ <<child.kind, child.id>> = <<Displayed(runner).kind, Displayed(runner).id>>
  /\ child.phase = "done"

\* handleDeleteArtifact with navigate('/') in a finally block
handleDeleteArtifact_finally(outcome) ==
  [navigate |-> TRUE, alert |-> outcome = "rejected"]

\* handleDeleteArtifact after its await: navigate('/') in the try block, the
\* alert in the catch block
handleDeleteArtifact(outcome) ==
  [navigate |-> outcome = "resolved", alert |-> outcome = "rejected"]

\* the Delete button of the header: setShowDeleteConfirm(true)
ClickDelete ==
  /\ MainViewShown
  /\ ~runner.showDeleteConfirm
  /\ runner' = [runner EXCEPT !.showDeleteConfirm = TRUE]
  /\ UNCHANGED <<store, route, child, shell, tried, passes, editor>>
  /\ UNCHANGED <<exec, deletion, gallery>>

\* Cancel in the confirmation dialog: setShowDeleteConfirm(false)
CancelDelete ==
  /\ MainViewShown
  /\ runner.showDeleteConfirm
  /\ runner' = [runner EXCEPT !.showDeleteConfirm = FALSE]
  /\ UNCHANGED <<store, route, child, shell, tried, passes, editor>>
  /\ UNCHANGED <<exec, deletion, gallery>>

\* Delete in the confirmation dialog: handleDeleteArtifact. The call of the
\* store resolves, or it rejects (the persisting set throws) with the
\* collection already filtered or not. The display is read from the store
\* here, so a rejection that has removed the artifact is taken once the
\* display has settled.
HandleDeleteArtifact ==
  /\ MainViewShown
  /\ runner.showDeleteConfirm
  /\ deletion.calls < MaxDeletes
  /\ \E outcome \in {"resolved", "rejected"}, removed \in BOOLEAN :
       /\ outcome = "resolved" => removed
       /\ (outcome = "rejected" /\ removed) => ChildSettled
       /\ store' = IF removed THEN deleteArtifact(store, route.id) ELSE store
       /\ deletion' = [calls |-> deletion.calls + 1, outcome |-> outcome]
       /\ IF handleDeleteArtifact(outcome).navigate
          THEN /\ route' = [page |-> "gallery", id |-> MissingId]
               /\ runner' = Unmounted
               /\ child' = NoChild
               /\ tried' = <<>>
               /\ passes' = 0
          ELSE UNCHANGED <<route, runner, child, tried, passes>>
  /\ UNCHANGED <<shell, editor>>
  /\ UNCHANGED <<exec, gallery>>

NextDelete ==
  \/ Next
  \/ ClickDelete
  \/ CancelDelete
  \/ HandleDeleteArtifact

SpecDelete == Init /\ [][NextDelete]_vars

(***************************************************************************)
(* The gallery: folder navigation and import                               *)
(***************************************************************************)
\* artifacts of a collection and items of an imported array
MaxArtifacts == 2

\* the folder fields of the stored artifacts; the empty one stands for a
\* missing folder as well (both are falsy)
Folders == {<<>>, <<"a">>, <<"b">>, <<"a", "/", "b">>, <<"a", "\\", "b">>}

GalleryArtifacts == {[type |-> "react", folder |-> f] : f \in Folders}

GalleryStores == UNION {[1..n -> GalleryArtifacts] : n \in 0..MaxArtifacts}

\* artifact.folder.replace(/\\/g, '/')
normalizedFolder(folder) ==
  [i \in 1..Len(folder) |-> IF folder[i] = "\\" THEN "/" ELSE folder[i]]

\* String.prototype.startsWith
StartsWith(s, p) == Len(s) >= Len(p) /\ SubSeq(s, 1, Len(p)) = p

\* the positions of the slashes of a path
Slashes(s) == {i \in 1..Len(s) : s[i] = "/"}

\* remaining.split('/')[0]
nextLevel(remaining) ==
  IF Slashes(remaining) = {} THEN remaining
  ELSE SubSeq(remaining, 1, (CHOOSE i \in Slashes(remaining) :
                               \A j \in Slashes(remaining) : i <= j) - 1)

\* the test of the first loop of the useMemo
isInCurrentFolder(folder, currentFolder) ==
  IF currentFolder = <<>> THEN ~Includes(folder, <<"/">>)
  ELSE StartsWith(folder, currentFolder \o <<"/">>) \/ folder = currentFolder

\* the subfolder the first loop adds for an artifact's normalized folder
SubFolderOf(folder, currentFolder) ==
  IF /\ isInCurrentFolder(folder, currentFolder)
     /\ folder # currentFolder
     /\ StartsWith(folder, currentFolder \o <<"/">>)
     /\ nextLevel(SubSeq(folder, Len(currentFolder) + 2, Len(folder))) # <<>>
  THEN LET next == nextLevel(SubSeq(folder, Len(currentFolder) + 2, Len(folder)))
       IN  {IF currentFolder # <<>> THEN currentFolder \o <<"/">> \o next ELSE next}
  ELSE {}

\* subFolders of the useMemo: the first loop, and at the root the second one
subFolders(artifacts, currentFolder) ==
  LET foldered == {normalizedFolder(artifacts[i].folder) :
                     i \in {j \in DOMAIN artifacts : artifacts[j].folder # <<>>}}
  IN  UNION {SubFolderOf(f, currentFolder) : f \in foldered}
        \cup (IF currentFolder = <<>> THEN {f \in foldered : ~Includes(f, <<"/">>)} ELSE {})

\* currentFolderArtifacts of the useMemo, as the ids of the artifacts
currentFolderArtifacts(artifacts, currentFolder) ==
  {i \in DOMAIN artifacts :
     IF artifacts[i].folder = <<>> THEN currentFolder = <<>>
     ELSE /\ isInCurrentFolder(normalizedFolder(artifacts[i].folder), currentFolder)
          /\ normalizedFolder(artifacts[i].folder) = currentFolder}

\* foldersInCurrentPath of the useMemo, for a path without empty parts
foldersInCurrentPath(currentFolder) ==
  IF currentFolder = <<>> THEN {}
  ELSE {SubSeq(currentFolder, 1, i - 1) : i \in Slashes(currentFolder)} \cup {currentFolder}

\* the path navigateToParentFolder goes to
parentPath(currentFolder) ==
  IF Slashes(currentFolder) = {} THEN <<>>
  ELSE SubSeq(currentFolder, 1, (CHOOSE i \in Slashes(currentFolder) :
                                   \A j \in Slashes(currentFolder) : i >= j) - 1)

\* the elements of an imported array: null, or an object with or without a
\* type
ImportItems ==
  {[json |-> "null"],
   [json |-> "object", type |-> "null", folder |-> <<"a", "/", "b">>],
   [json |-> "object", type |-> "null", folder |-> <<"b">>],
   [json |-> "object", type |-> "svg", folder |-> <<>>]}

\* the files given to the import, by what JSON.parse makes of their text: it
\* throws, it returns a value that is not an array, or it returns an array
ImportFiles ==
  {[parse |-> "throws", items |-> <<>>], [parse |-> "value", items |-> <<>>]}
    \cup {[parse |-> "array", items |-> s] :
            s \in UNION {[1..n -> ImportItems] : n \in 0..MaxArtifacts}}

\* the store's importArtifacts: reading .type of a null element throws inside
\* the try block, like JSON.parse
importArtifacts(artifacts, file) ==
  IF file.parse = "throws"
  THEN [artifacts |-> artifacts, replaced |-> FALSE, threw |-> "Invalid JSON format"]
  ELSE IF file.parse # "array"
  THEN [artifacts |-> artifacts, replaced |-> FALSE, threw |-> "null"]
  ELSE IF \E i \in DOMAIN file.items : file.items[i].json = "null"
  THEN [artifacts |-> artifacts, replaced |-> FALSE, threw |-> "Invalid JSON format"]
  ELSE [artifacts |->
          [i \in DOMAIN file.items |->
             [type |-> IF file.items[i].type = "null" THEN "react" ELSE file.items[i].type,
              folder |-> file.items[i].folder]],
        replaced |-> TRUE, threw |-> "null"]

\* the gallery's effect: loadArtifacts finds every artifact with a type
LoadArtifacts ==
  /\ route.page = "gallery"
  /\ gallery.loading
  /\ gallery' = [gallery EXCEPT !.loading = FALSE]
  /\ UNCHANGED <<store, route, runner, child, shell, tried, passes, editor>>
  /\ UNCHANGED <<exec, deletion>>

\* a folder button, a breadcrumb or Home: navigateToFolder(folderPath)
NavigateToFolder(folderPath) ==
  /\ route.page = "gallery"
  /\ ~gallery.loading
  /\ folderPath \in subFolders(store, gallery.currentFolder)
                      \cup foldersInCurrentPath(gallery.currentFolder) \cup {<<>>}
  /\ folderPath # gallery.currentFolder
  /\ gallery' = [gallery EXCEPT !.currentFolder = folderPath]
  /\ UNCHANGED <<store, route, runner, child, shell, tried, passes, editor>>
  /\ UNCHANGED <<exec, deletion>>

\* Go Back of the "This folder is empty" box: navigateToParentFolder
NavigateToParentFolder ==
  /\ route.page = "gallery"
  /\ ~gallery.loading
  /\ DOMAIN store # {}
  /\ currentFolderArtifacts(store, gallery.currentFolder) = {}
  /\ subFolders(store, gallery.currentFolder) = {}
  /\ gallery.currentFolder # <<>>
  /\ gallery' = [gallery EXCEPT !.currentFolder = parentPath(gallery.currentFolder)]
  /\ UNCHANGED <<store, route, runner, child, shell, tried, passes, editor>>
  /\ UNCHANGED <<exec, deletion>>

\* a file is chosen in the import input: handleFileChange
HandleFileChange(file) ==
  /\ route.page = "gallery"
  /\ ~gallery.loading
  /\ LET r == importArtifacts(store, file)
     IN  /\ store' = r.artifacts
         /\ gallery' =
              [gallery EXCEPT
                 !.importMessage = IF r.threw = "null" THEN "success" ELSE "error",
                 !.imported = [parse |-> file.parse, replaced |-> r.replaced,
                               threw |-> r.threw]]
  /\ UNCHANGED <<route, runner, child, shell, tried, passes, editor>>
  /\ UNCHANGED <<exec, deletion>>

\* the timeout of handleFileChange: setImportMessage(null)
ClearImportMessage ==
  /\ route.page = "gallery"
  /\ gallery.importMessage # "null"
  /\ gallery' = [gallery EXCEPT !.importMessage = "null"]
  /\ UNCHANGED <<store, route, runner, child, shell, tried, passes, editor>>
  /\ UNCHANGED <<exec, deletion>>

InitGallery ==
  /\ store \in GalleryStores
  /\ route = [page |-> "gallery", id |-> MissingId]
  /\ runner = Unmounted
  /\ child = NoChild
  /\ shell = "ok"
  /\ tried = <<>>
  /\ passes = 0
  /\ editor = ClosedEditor
  /\ exec = NoExec
  /\ deletion = NoDeletion
  /\ gallery = RootGallery

NextGallery ==
  \/ LoadArtifacts
  \/ \E folderPath \in {normalizedFolder(f) : f \in Folders} : NavigateToFolder(folderPath)
  \/ NavigateToParentFolder
  \/ \E file \in ImportFiles : HandleFileChange(file)
  \/ ClearImportMessage

SpecGallery == InitGallery /\ [][NextGallery]_vars

(***************************************************************************)
(* Specification: two stored artifacts, the route id changing under the    *)
(* mounted ArtifactRunner                                                  *)
(***************************************************************************)
\* render passes one mounted ArtifactRunner goes through
MaxPasses == 3

\* the artifacts stored in the two-artifact collection
NavArtifacts ==
  {[type |-> "svg", code |-> <<"<svg>", "</svg>">>, beh |-> "broken"],
   [type |-> "mermaid", code |-> <<"graph TD">>, beh |-> "broken"],
   [type |-> "mermaid", code |-> <<"graph TD", "x">>, beh |-> "broken"],
   [type |-> "react", code |-> <<"export default ", "function">>, beh |-> "component"],
   [type |-> "react", code |-> <<"function", "x">>, beh |-> "broken"]}

\* the route changes from /view/:id to /view/:other (history navigation, or
\* an edited location hash): the same ArtifactRunner stays mounted and its
\* effect on [id, getArtifact] runs again
ChangeId(id) ==
  /\ route.page = "view"
  /\ shell = "ok"
  /\ runner.pc = "done"
  /\ id # route.id
  /\ passes < MaxPasses
  /\ route' = [page |-> "view", id |-> id]
  /\ runner' = [runner EXCEPT !.pc = "start"]
  /\ UNCHANGED <<store, child, shell, tried, passes, editor>>
  /\ UNCHANGED <<exec, deletion, gallery>>

InitNav ==
  /\ store \in [{1, 2} -> NavArtifacts]
  /\ route = [page |-> "gallery", id |-> MissingId]
  /\ runner = Unmounted
  /\ child = NoChild
  /\ shell = "ok"
  /\ tried = <<>>
  /\ passes = 0
  /\ editor = ClosedEditor
  /\ exec = NoExec
  /\ deletion = NoDeletion
  /\ gallery = RootGallery

NextNav ==
  \/ Next
  \/ \E id \in DOMAIN store : ChangeId(id)

SpecNav == InitNav /\ [][NextNav]_vars

(***************************************************************************)
(* Regular expressions of executeComponentCode                             *)
(*                                                                         *)
(* A pattern is a sequence of items, each a character class with a         *)
(* repetition range; a capture group encloses exactly one item.  Matching  *)
(* is the backtracking, greedy matching of RegExp: every item first takes  *)
(* the longest run it can and gives characters back one at a time.         *)
(***************************************************************************)
\* the repetition bound of + and *
Unbounded == 1000000

\* \w
IsWordChar(c) == IsAlnum(c) \/ c = "_"

\* membership of a character in the class of an item
InClass(c, item) ==
  CASE item.cls = "char"     -> c = item.str[1]
    [] item.cls = "space"    -> IsSpace(c)
    [] item.cls = "word"     -> IsWordChar(c)
    [] item.cls = "notBrace" -> c # "}"
    [] item.cls = "dot"      -> c # "\n"
    [] item.cls = "quote"    -> c \in {"'", "\""}

\* a literal string of the pattern: one item that takes the whole string
Lit(w) == <<[cls |-> "lit", str |-> w, min |-> 1, max |-> 1, cap |-> 0]>>
\* c?
Opt(c) == <<[cls |-> "char", str |-> <<c>>, min |-> 0, max |-> 1, cap |-> 0]>>
\* \s+ and \s*
SpacePlus == <<[cls |-> "space", str |-> <<>>, min |-> 1, max |-> Unbounded, cap |-> 0]>>
SpaceStar == <<[cls |-> "space", str |-> <<>>, min |-> 0, max |-> Unbounded, cap |-> 0]>>
\* ['"]
Quote == <<[cls |-> "quote", str |-> <<>>, min |-> 1, max |-> 1, cap |-> 0]>>
\* ([^}]*), (\w+) and (.+) as capture group g
GroupNotBraceStar(g) ==
  <<[cls |-> "notBrace", str |-> <<>>, min |-> 0, max |-> Unbounded, cap |-> g]>>
GroupWordPlus(g) == <<[cls |-> "word", str |-> <<>>, min |-> 1, max |-> Unbounded, cap |-> g]>>
GroupDotPlus(g) == <<[cls |-> "dot", str |-> <<>>, min |-> 1, max |-> Unbounded, cap |-> g]>>

NoMatch == [ok |-> FALSE, lens |-> <<>>]

\* the least element of a set of positions, none if the set is empty
FirstOf(positions, none) ==
  IF positions = {} THEN none ELSE CHOOSE p \in positions : \A q \in positions : p <= q

\* the longest run of characters of the item's class from pos, up to its maximum
Run(item, s, pos) ==
  LET stop == FirstOf({j \in pos..Len(s) : ~InClass(s[j], item)}, Len(s) + 1)
  IN  IF stop - pos > item.max THEN item.max ELSE stop - pos

\* the literal string of the item stands at pos
LitAt(item, s, pos) ==
  /\ pos + Len(item.str) - 1 <= Len(s)
  /\ SubSeq(s, pos, pos + Len(item.str) - 1) = item.str

\* an item that took n characters, followed by the match of the rest
Taking(n, rest) == IF rest.ok THEN [ok |-> TRUE, lens |-> <<n>> \o rest.lens] ELSE NoMatch

\* The match of items k.. of the pattern at pos: the number of characters
\* each item takes.  A class item first takes its longest run and gives
\* characters back one at a time while the rest of the pattern fails.
RECURSIVE MatchAt(_, _, _, _)
RECURSIVE TryLen(_, _, _, _, _)
RECURSIVE TryShorter(_, _, _, _, _, _)
MatchAt(re, k, s, pos) ==
  IF k > Len(re) THEN [ok |-> TRUE, lens |-> <<>>]
  ELSE IF re[k].cls = "lit"
  THEN IF LitAt(re[k], s, pos)
       THEN Taking(Len(re[k].str), MatchAt(re, k + 1, s, pos + Len(re[k].str)))
       ELSE NoMatch
  ELSE TryLen(re, k, s, pos, Run(re[k], s, pos))

TryLen(re, k, s, pos, n) ==
  IF n < re[k].min THEN NoMatch
  ELSE TryShorter(re, k, s, pos, n, MatchAt(re, k + 1, s, pos + n))

TryShorter(re, k, s, pos, n, rest) ==
  IF rest.ok THEN Taking(n, rest) ELSE TryLen(re, k, s, pos, n - 1)

RECURSIVE SumUpTo(_, _)
SumUpTo(lens, k) == IF k = 0 THEN 0 ELSE lens[k] + SumUpTo(lens, k - 1)

\* the length of a match
Total(lens) == SumUpTo(lens, Len(lens))

\* the text of capture group g of a match at pos
Capture(re, g, s, pos, lens) ==
  LET k == CHOOSE i \in 1..Len(re) : re[i].cap = g
  IN  SubSeq(s, pos + SumUpTo(lens, k - 1), pos + SumUpTo(lens, k) - 1)

\* a replacement: literal parts and $g references
Part(text) == <<[grp |-> 0, lit |-> text]>>
Ref(g) == <<[grp |-> g, lit |-> <<>>]>>

RECURSIVE Expand(_, _, _, _, _)
Expand(tpl, re, s, pos, lens) ==
  IF tpl = <<>> THEN <<>>
  ELSE (IF Head(tpl).grp = 0 THEN Head(tpl).lit
        ELSE Capture(re, Head(tpl).grp, s, pos, lens))
       \o Expand(Tail(tpl), re, s, pos, lens)

\* the first position from pos on where the pattern matches, 0 if none
NextMatch(re, s, pos) == FirstOf({p \in pos..Len(s) : MatchAt(re, 1, s, p).ok}, 0)

\* String.prototype.replace with a g-flagged pattern, from pos on: the text
\* up to the next match, the replacement of the match, and so on behind it
RECURSIVE ReplaceFrom(_, _, _, _)
RECURSIVE ReplaceAt(_, _, _, _, _)
RECURSIVE ReplaceMatch(_, _, _, _, _)
ReplaceFrom(re, tpl, s, pos) == ReplaceAt(re, tpl, s, pos, NextMatch(re, s, pos))

ReplaceAt(re, tpl, s, pos, p) ==
  IF p = 0 THEN SubSeq(s, pos, Len(s))
  ELSE SubSeq(s, pos, p - 1) \o ReplaceMatch(re, tpl, s, p, MatchAt(re, 1, s, p).lens)

ReplaceMatch(re, tpl, s, p, lens) ==
  Expand(tpl, re, s, p, lens) \o ReplaceFrom(re, tpl, s, p + Total(lens))

ReplaceAll(s, rule) == ReplaceFrom(rule.re, rule.tpl, s, 1)

\* the texts capture group g takes in the successive matches of a g-flagged
\* pattern (the loop over RegExp.exec)
RECURSIVE CapturesFrom(_, _, _, _)
RECURSIVE CapturesAt(_, _, _, _)
RECURSIVE CapturesOf(_, _, _, _, _)
CapturesFrom(re, g, s, pos) == CapturesAt(re, g, s, NextMatch(re, s, pos))

CapturesAt(re, g, s, p) ==
  IF p = 0 THEN {} ELSE CapturesOf(re, g, s, p, MatchAt(re, 1, s, p).lens)

CapturesOf(re, g, s, p, lens) ==
  {Capture(re, g, s, p, lens)} \cup CapturesFrom(re, g, s, p + Total(lens))

\* import\s+{\s*([^}]*)\s*}\s+from\s+['"]module['"];?
NamedImportFrom(module) ==
  Lit(<<"i", "m", "p", "o", "r",
      "t">>) \o SpacePlus \o Lit(<<"{">>) \o SpaceStar \o GroupNotBraceStar(1)
    \o SpaceStar \o Lit(<<"}">>) \o SpacePlus \o Lit(<<"f", "r", "o", "m">>) \o SpacePlus
    \o Quote \o Lit(module) \o Quote \o Opt(";")

\* /import\s+React\s*,?\s*{\s*([^}]*)\s*}\s+from\s+['"]react['"];?/g -> ''
ReactDefaultAndNamedImport ==
  [re |-> Lit(<<"i", "m", "p", "o", "r", "t">>) \o SpacePlus \o Lit(<<"R", "e", "a", "c",
      "t">>) \o SpaceStar \o Opt(",")
            \o SpaceStar \o Lit(<<"{">>) \o SpaceStar \o GroupNotBraceStar(1) \o SpaceStar
            \o Lit(<<"}">>) \o SpacePlus \o Lit(<<"f", "r", "o", "m">>) \o SpacePlus
            \o Quote \o Lit(<<"r", "e", "a", "c", "t">>) \o Quote \o Opt(";"),
   tpl |-> <<>>]

\* /import\s+React\s+from\s+['"]react['"];?/g -> ''
ReactDefaultImport ==
  [re |-> Lit(<<"i", "m", "p", "o", "r", "t">>) \o SpacePlus \o Lit(<<"R", "e", "a", "c",
      "t">>) \o SpacePlus \o Lit(<<"f", "r", "o", "m">>)
            \o SpacePlus \o Quote \o Lit(<<"r", "e", "a", "c", "t">>) \o Quote \o Opt(";"),
   tpl |-> <<>>]

\* ReactNamedImport that matches the module name in single quotes only
ReactNamedImport_singleQuoted ==
  [re |-> Lit(<<"i", "m", "p", "o", "r",
      "t">>) \o SpacePlus \o Lit(<<"{">>) \o SpaceStar \o GroupNotBraceStar(1)
            \o SpaceStar \o Lit(<<"}">>) \o SpacePlus \o Lit(<<"f", "r", "o", "m">>) \o SpacePlus
            \o Lit(<<"'", "r", "e", "a", "c", "t", "'">>) \o Opt(";"),
   tpl |-> <<>>]

\* /import\s+{\s*([^}]*)\s*}\s+from\s+['"]react['"];?/g -> ''
ReactNamedImport == [re |-> NamedImportFrom(<<"r", "e", "a", "c", "t">>), tpl |-> <<>>]

\* objectImportRegex: /import\s+{\s*([^}]*)\s*}\s+from\s+['"]lucide-react['"];?/g
objectImportRegex == NamedImportFrom(<<"l", "u", "c", "i", "d", "e", "-", "r", "e", "a", "c",
    "t">>)

\* namedImportRegex: /import\s+(\w+)\s+from\s+['"]lucide-react['"];?/g
namedImportRegex ==
  Lit(<<"i", "m", "p", "o", "r",
      "t">>) \o SpacePlus \o GroupWordPlus(1) \o SpacePlus \o Lit(<<"f", "r", "o", "m">>)
    \o SpacePlus \o Quote \o Lit(<<"l", "u", "c", "i", "d", "e", "-", "r", "e", "a", "c",
        "t">>) \o Quote \o Opt(";")

\* LucideNamedImport whose comment keeps the import statement
LucideNamedImport_keepsStatement ==
  [re |-> objectImportRegex,
   tpl |-> Part(<<"/", "*", " ", "i", "m", "p", "o", "r", "t", " ", "{",
       " ">>) \o Ref(1) \o Part(<<"}", " ", "f", "r", "o", "m", " ", "'", "l", "u", "c", "i",
       "d", "e", "-", "r", "e", "a", "c", "t", "'", " ", "*", "/">>)]

\* -> `/* Imported Lucide icons: ${iconList} */`
LucideNamedImport ==
  [re |-> objectImportRegex,
   tpl |-> Part(<<"/", "*", " ", "I", "m", "p", "o", "r", "t", "e", "d", " ", "L", "u", "c", "i",
       "d", "e", " ", "i", "c", "o", "n", "s", ":", " ">>) \o Ref(1) \o Part(<<" ", "*", "/">>)]

\* -> `/* Imported Lucide icon: ${iconName} */`
LucideDefaultImport ==
  [re |-> namedImportRegex,
   tpl |-> Part(<<"/", "*", " ", "I", "m", "p", "o", "r", "t", "e", "d", " ", "L", "u", "c", "i",
       "d", "e", " ", "i", "c", "o", "n", ":", " ">>) \o Ref(1) \o Part(<<" ", "*", "/">>)]

\* /import\s+{\s*([^}]*)\s*}\s+from\s+['"]recharts['"];?/g -> ''
RechartsNamedImport == [re |-> NamedImportFrom(<<"r", "e", "c", "h", "a", "r", "t", "s">>),
    tpl |-> <<>>]

\* /import\s+(.+)\s+from\s+['"](.+)['"];?/g -> '/* import $1 from "$2" */'
OtherImport ==
  [re |-> Lit(<<"i", "m", "p", "o", "r",
      "t">>) \o SpacePlus \o GroupDotPlus(1) \o SpacePlus \o Lit(<<"f", "r", "o", "m">>)
            \o SpacePlus \o Quote \o GroupDotPlus(2) \o Quote \o Opt(";"),
   tpl |-> Part(<<"/", "*", " ", "i", "m", "p", "o", "r", "t", " ">>) \o Ref(1) \o Part(<<" ",
       "f", "r", "o", "m", " ", "\"">>) \o Ref(2) \o Part(<<"\"", " ", "*", "/">>)]

\* /export\s+default\s+(\w+);?/g -> 'var componentToRender = $1;'
ExportDefaultName ==
  [re |-> Lit(<<"e", "x", "p", "o", "r", "t">>) \o SpacePlus \o Lit(<<"d", "e", "f", "a", "u",
      "l", "t">>) \o SpacePlus
            \o GroupWordPlus(1) \o Opt(";"),
   tpl |-> Part(<<"v", "a", "r", " ", "c", "o", "m", "p", "o", "n", "e", "n", "t", "T", "o", "R",
       "e", "n", "d", "e", "r", " ", "=", " ">>) \o Ref(1) \o Part(<<";">>)]

\* /export\s+default\s+/g -> 'var componentToRender = '
ExportDefault ==
  [re |-> Lit(<<"e", "x", "p", "o", "r", "t">>) \o SpacePlus \o Lit(<<"d", "e", "f", "a", "u",
      "l", "t">>) \o SpacePlus,
   tpl |-> Part(<<"v", "a", "r", " ", "c", "o", "m", "p", "o", "n", "e", "n", "t", "T", "o", "R",
       "e", "n", "d", "e", "r", " ", "=", " ">>)]

\* the replace calls of executeComponentCode, in their order
RewriteRules ==
  <<ReactDefaultAndNamedImport, ReactDefaultImport, ReactNamedImport, LucideNamedImport,
    LucideDefaultImport, RechartsNamedImport, OtherImport, ExportDefaultName, ExportDefault>>

\* the rules applied in their order, each to the text the one before it returned
RECURSIVE ApplyRules(_, _)
RECURSIVE ApplyRest(_, _)
ApplyRules(s, rules) ==
  IF rules = <<>> THEN s ELSE ApplyRest(ReplaceAll(s, Head(rules)), Tail(rules))

ApplyRest(replaced, rules) ==
  IF Len(replaced) >= 0 THEN ApplyRules(replaced, rules) ELSE replaced

\* processedCode: the code after the import and export rewrite
processCode(code) == ApplyRules(code, RewriteRules)


(***************************************************************************)
(* Component sources: import lines followed by a module body               *)
(***************************************************************************)
\* most import lines in front of the body of a component source
MaxImports == 1

\* the import lines, with their characters
ImportChars ==
  [t \in {"import React from 'react';", "import React, { useState } from 'react';",
          "import { useState } from \"react\";", "import * as React from 'react';",
          "import { Camera } from 'lucide-react';", "import { Nope } from 'lucide-react';",
          "import { Nope } from \"lucide-react\";", "import { PieChart } from 'lucide-react';",
          "import { LineChart } from 'recharts';", "import x from 'y';",
          "import { a } from 'y';", "import {\n  a\n} from 'y';", "import * as y from 'y';",
          "import 'y';"} |->
     CASE t = "import React from 'react';" -> <<"i", "m", "p", "o", "r", "t", " ", "R", "e", "a",
         "c", "t", " ", "f", "r", "o", "m", " ", "'", "r", "e", "a", "c", "t", "'", ";", "\n">>
       [] t = "import React, { useState } from 'react';" -> <<"i", "m", "p", "o", "r", "t", " ",
           "R", "e", "a", "c", "t", ",", " ", "{", " ", "u", "s", "e", "S", "t", "a", "t", "e",
           " ", "}", " ", "f", "r", "o", "m", " ", "'", "r", "e", "a", "c", "t", "'", ";",
           "\n">>
       [] t = "import { useState } from \"react\";" -> <<"i", "m", "p", "o", "r", "t", " ", "{",
           " ", "u", "s", "e", "S", "t", "a", "t", "e", " ", "}", " ", "f", "r", "o", "m", " ",
           "\"", "r", "e", "a", "c", "t", "\"", ";", "\n">>
       [] t = "import * as React from 'react';" -> <<"i", "m", "p", "o", "r", "t", " ", "*", " ",
           "a", "s", " ", "R", "e", "a", "c", "t", " ", "f", "r", "o", "m", " ", "'", "r", "e",
           "a", "c", "t", "'", ";", "\n">>
       [] t = "import { Camera } from 'lucide-react';" -> <<"i", "m", "p", "o", "r", "t", " ",
           "{", " ", "C", "a", "m", "e", "r", "a", " ", "}", " ", "f", "r", "o", "m", " ", "'",
           "l", "u", "c", "i", "d", "e", "-", "r", "e", "a", "c", "t", "'", ";", "\n">>
       [] t = "import { Nope } from 'lucide-react';" -> <<"i", "m", "p", "o", "r", "t", " ", "{",
           " ", "N", "o", "p", "e", " ", "}", " ", "f", "r", "o", "m", " ", "'", "l", "u", "c",
           "i", "d", "e", "-", "r", "e", "a", "c", "t", "'", ";", "\n">>
       [] t = "import { Nope } from \"lucide-react\";" -> <<"i", "m", "p", "o", "r", "t", " ",
           "{", " ", "N", "o", "p", "e", " ", "}", " ", "f", "r", "o", "m", " ", "\"", "l", "u",
           "c", "i", "d", "e", "-", "r", "e", "a", "c", "t", "\"", ";", "\n">>
       [] t = "import { PieChart } from 'lucide-react';" -> <<"i", "m", "p", "o", "r", "t", " ",
           "{", " ", "P", "i", "e", "C", "h", "a", "r", "t", " ", "}", " ", "f", "r", "o", "m",
           " ", "'", "l", "u", "c", "i", "d", "e", "-", "r", "e", "a", "c", "t", "'", ";",
           "\n">>
       [] t = "import { LineChart } from 'recharts';" -> <<"i", "m", "p", "o", "r", "t", " ",
           "{", " ", "L", "i", "n", "e", "C", "h", "a", "r", "t", " ", "}", " ", "f", "r", "o",
           "m", " ", "'", "r", "e", "c", "h", "a", "r", "t", "s", "'", ";", "\n">>
       [] t = "import x from 'y';" -> <<"i", "m", "p", "o", "r", "t", " ", "x", " ", "f", "r",
           "o", "m", " ", "'", "y", "'", ";", "\n">>
       [] t = "import { a } from 'y';" -> <<"i", "m", "p", "o", "r", "t", " ", "{", " ", "a",
           " ", "}", " ", "f", "r", "o", "m", " ", "'", "y", "'", ";", "\n">>
       [] t = "import {\n  a\n} from 'y';" -> <<"i", "m", "p", "o", "r", "t", " ", "{", "\n",
           " ", " ", "a", "\n", "}", " ", "f", "r", "o", "m", " ", "'", "y", "'", ";", "\n">>
       [] t = "import * as y from 'y';" -> <<"i", "m", "p", "o", "r", "t", " ", "*", " ", "a",
           "s", " ", "y", " ", "f", "r", "o", "m", " ", "'", "y", "'", ";", "\n">>
       [] t = "import 'y';" -> <<"i", "m", "p", "o", "r", "t", " ", "'", "y", "'", ";", "\n">>]

\* the module bodies, with their characters
BodyChars ==
  [t \in {"const App = () => null; export default App;",
          "export default function App() { return null; }",
          "export default class App extends React.Component { render() { return null; } }",
          "export default function() { return null; }",
          "export default () => null;",
          "function App() { return React.createElement('div'); }",
          "const n = 1;",
          "const icons = [Nope]; export default () => null;",
          "const icons = [Camera]; export default () => null;",
          "graph TD <svg>", "graph TD <!-- x -->", "<!-- x -->",
          "const icons = [Nope]; /* <!-- */ export default () => null;"} |->
     CASE t = "const App = () => null; export default App;" -> <<"c", "o", "n", "s", "t", " ",
         "A", "p", "p", " ", "=", " ", "(", ")", " ", "=", ">", " ", "n", "u", "l", "l", ";",
         "\n", "e", "x", "p", "o", "r", "t", " ", "d", "e", "f", "a", "u", "l", "t", " ", "A",
         "p", "p", ";", "\n">>
       [] t = "export default function App() { return null; }" -> <<"e", "x", "p", "o", "r", "t",
           " ", "d", "e", "f", "a", "u", "l", "t", " ", "f", "u", "n", "c", "t", "i", "o", "n",
           " ", "A", "p", "p", "(", ")", " ", "{", " ", "r", "e", "t", "u", "r", "n", " ", "n",
           "u", "l", "l", ";", " ", "}", "\n">>
       [] t = "export default class App extends React.Component { render() { return null; } }" -> <<"e",
           "x", "p", "o", "r", "t", " ", "d", "e", "f", "a", "u", "l", "t", " ", "c", "l", "a",
           "s", "s", " ", "A", "p", "p", " ", "e", "x", "t", "e", "n", "d", "s", " ", "R", "e",
           "a", "c", "t", ".", "C", "o", "m", "p", "o", "n", "e", "n", "t", " ", "{", " ", "r",
           "e", "n", "d", "e", "r", "(", ")", " ", "{", " ", "r", "e", "t", "u", "r", "n", " ",
           "n", "u", "l", "l", ";", " ", "}", " ", "}", "\n">>
       [] t = "export default function() { return null; }" -> <<"e", "x", "p", "o", "r", "t",
           " ", "d", "e", "f", "a", "u", "l", "t", " ", "f", "u", "n", "c", "t", "i", "o", "n",
           "(", ")", " ", "{", " ", "r", "e", "t", "u", "r", "n", " ", "n", "u", "l", "l", ";",
           " ", "}", "\n">>
       [] t = "export default () => null;" -> <<"e", "x", "p", "o", "r", "t", " ", "d", "e", "f",
           "a", "u", "l", "t", " ", "(", ")", " ", "=", ">", " ", "n", "u", "l", "l", ";",
           "\n">>
       [] t = "function App() { return React.createElement('div'); }" -> <<"f", "u", "n", "c",
           "t", "i", "o", "n", " ", "A", "p", "p", "(", ")", " ", "{", " ", "r", "e", "t", "u",
           "r", "n", " ", "R", "e", "a", "c", "t", ".", "c", "r", "e", "a", "t", "e", "E", "l",
           "e", "m", "e", "n", "t", "(", "'", "d", "i", "v", "'", ")", ";", " ", "}", "\n">>
       [] t = "const n = 1;" -> <<"c", "o", "n", "s", "t", " ", "n", " ", "=", " ", "1", ";",
           "\n">>
       [] t = "const icons = [Nope]; export default () => null;" -> <<"c", "o", "n", "s", "t",
           " ", "i", "c", "o", "n", "s", " ", "=", " ", "[", "N", "o", "p", "e", "]", ";", "\n",
           "e", "x", "p", "o", "r", "t", " ", "d", "e", "f", "a", "u", "l", "t", " ", "(", ")",
           " ", "=", ">", " ", "n", "u", "l", "l", ";", "\n">>
       [] t = "const icons = [Camera]; export default () => null;" -> <<"c", "o", "n", "s", "t",
           " ", "i", "c", "o", "n", "s", " ", "=", " ", "[", "C", "a", "m", "e", "r", "a", "]",
           ";", "\n", "e", "x", "p", "o", "r", "t", " ", "d", "e", "f", "a", "u", "l", "t", " ",
           "(", ")", " ", "=", ">", " ", "n", "u", "l", "l", ";", "\n">>
       [] t = "graph TD <svg>" -> <<"g", "r", "a", "p", "h", " ", "T", "D", "\n", "<", "s", "v",
           "g", ">", "\n">>
       [] t = "graph TD <!-- x -->" -> <<"g", "r", "a", "p", "h", " ", "T", "D", "\n", "<", "!",
           "-", "-", " ", "x", " ", "-", "-", ">", "\n">>
       [] t = "<!-- x -->" -> <<"<", "!", "-", "-", " ", "x", " ", "-", "-", ">", "\n">>
       [] t = "const icons = [Nope]; /* <!-- */ export default () => null;" -> <<"c", "o", "n",
           "s", "t", " ", "i", "c", "o", "n", "s", " ", "=", " ", "[", "N", "o", "p", "e", "]",
           ";", "\n", "/", "*", " ", "<", "!", "-", "-", " ", "*", "/", "\n", "e", "x", "p", "o",
           "r", "t", " ", "d", "e", "f", "a", "u", "l", "t", " ", "(", ")", " ", "=", ">", " ",
           "n", "u", "l", "l", ";", "\n">>]

\* every component source of at most n import lines
SourcesUpTo(n) ==
  {[imports |-> i, body |-> b] :
     i \in UNION {[1..k -> DOMAIN ImportChars] : k \in 0..n}, b \in DOMAIN BodyChars}

RECURSIVE ImportsText(_)
ImportsText(imports) ==
  IF imports = <<>> THEN <<>>
  ELSE ImportChars[Head(imports)] \o ImportsText(Tail(imports))

\* the code of a component source
SourceText(src) == ImportsText(src.imports) \o BodyChars[src.body]


(***************************************************************************)
(* executeComponentCode on component sources: the capability namespace,    *)
(* the transpiled code, its evaluation and the two catch blocks            *)
(***************************************************************************)
\* React and the hooks passed to every component
ReactGlobals ==
  [n \in {<<"R", "e", "a", "c", "t">>, <<"u", "s", "e", "S", "t", "a", "t", "e">>, <<"u", "s",
      "e", "E", "f", "f", "e", "c", "t">>, <<"u", "s", "e", "R", "e", "f">>, <<"u", "s", "e",
      "C", "a", "l", "l", "b", "a", "c", "k">>, <<"u", "s", "e", "M", "e", "m", "o">>,
          <<"u", "s", "e", "C", "o", "n", "t", "e", "x", "t">>} |-> [lib |-> "react", name |-> n]]

\* the exports of lucide-react and of recharts (two of each; PieChart is
\* exported by both)
LucideIcons == [n \in {<<"C", "a", "m", "e", "r", "a">>, <<"P", "i", "e", "C", "h", "a", "r",
    "t">>} |-> [lib |-> "lucide-react", name |-> n]]
Recharts == [n \in {<<"L", "i", "n", "e", "C", "h", "a", "r", "t">>, <<"P", "i", "e", "C", "h",
    "a", "r", "t">>} |-> [lib |-> "recharts", name |-> n]]

\* {...f, ...g}
Spread(f, g) == [n \in DOMAIN f \cup DOMAIN g |-> IF n \in DOMAIN g THEN g[n] ELSE f[n]]

\* iconList.split(',').map(s => s.trim())
SplitTrim(s) ==
  {Trim(SubSeq(s, i, j)) : <<i, j>> \in
     {<<a, b>> \in (1..(Len(s) + 1)) \X (0..Len(s)) :
        /\ b >= a - 1
        /\ a = 1 \/ s[a - 1] = ","
        /\ b = Len(s) \/ s[b + 1] = ","
        /\ \A k \in a..b : s[k] # ","}}

\* the icons the source imports from lucide-react that LucideIcons has
extractLucideIconImports(sourceCode) ==
  LET listed == UNION {SplitTrim(iconList) :
                         iconList \in CapturesFrom(objectImportRegex, 1, sourceCode, 1)}
      named == CapturesFrom(namedImportRegex, 1, sourceCode, 1)
      importedIcons == {icon \in listed \cup named : icon # <<>> /\ icon \in DOMAIN LucideIcons}
  IN  [icon \in importedIcons |-> LucideIcons[icon]]

\* globals with the extracted icon imports spread before Recharts
globals_iconsFirst(code) ==
  Spread(Spread(Spread(ReactGlobals, LucideIcons), extractLucideIconImports(code)), Recharts)

\* the globals object: later spreads replace earlier keys
globals(code) ==
  Spread(Spread(Spread(ReactGlobals, LucideIcons), Recharts), extractLucideIconImports(code))

\* words that are not identifiers
ReservedWords == {<<"f", "u", "n", "c", "t", "i", "o", "n">>, <<"c", "l", "a", "s", "s">>, <<"n",
    "u", "l", "l">>, <<"r", "e", "t", "u", "r", "n">>, <<"v", "a", "r">>, <<"c", "o", "n", "s",
    "t">>}

\* The statements of the module bodies, as the rewrite can leave them, with
\* the names they read when evaluated, the names they declare and whether
\* they assign componentToRender.  Any other text is a syntax error of
\* Babel.transform or of new Function (an import statement among them).
StatementForms ==
  <<[re |-> Lit(<<"c", "o", "n", "s", "t", " ">>) \o GroupWordPlus(1) \o Lit(<<" ", "=", " ",
      "(", ")", " ", "=", ">", " ", "n", "u", "l", "l", ";">>),
     declares |-> 1, reads |-> 0, assigns |-> FALSE],
    [re |-> Lit(<<"c", "o", "n", "s", "t", " ">>) \o GroupWordPlus(1) \o Lit(<<" ", "=", " ",
        "1", ";">>),
     declares |-> 1, reads |-> 0, assigns |-> FALSE],
    [re |-> Lit(<<"c", "o", "n", "s", "t", " ">>) \o GroupWordPlus(1) \o Lit(<<" ", "=", " ",
        "[">>) \o GroupWordPlus(2) \o Lit(<<"]", ";">>),
     declares |-> 1, reads |-> 2, assigns |-> FALSE],
    [re |-> Lit(<<"f", "u", "n", "c", "t", "i", "o", "n", " ">>) \o GroupWordPlus(1)
              \o Lit(<<"(", ")", " ", "{", " ", "r", "e", "t", "u", "r", "n", " ", "R", "e", "a",
                  "c", "t", ".", "c", "r", "e", "a", "t", "e", "E", "l", "e", "m", "e", "n", "t",
                  "(", "'", "d", "i", "v", "'", ")", ";", " ", "}">>),
     declares |-> 1, reads |-> 0, assigns |-> FALSE],
    [re |-> Lit(<<"v", "a", "r", " ", "c", "o", "m", "p", "o", "n", "e", "n", "t", "T", "o", "R",
        "e", "n", "d", "e", "r", " ", "=", " ">>) \o GroupWordPlus(1) \o Lit(<<";">>),
     declares |-> 0, reads |-> 1, assigns |-> TRUE],
    [re |-> Lit(<<"v", "a", "r", " ", "c", "o", "m", "p", "o", "n", "e", "n", "t", "T", "o", "R",
        "e", "n", "d", "e", "r", " ", "=", " ", "(", ")", " ", "=", ">", " ", "n", "u", "l", "l",
        ";">>),
     declares |-> 0, reads |-> 0, assigns |-> TRUE],
    [re |-> Lit(<<"v", "a", "r", " ", "c", "o", "m", "p", "o", "n", "e", "n", "t", "T", "o", "R",
        "e", "n", "d", "e", "r", " ", "=", " ", "f", "u", "n", "c", "t", "i", "o", "n", "(", ")",
        " ", "{", " ", "r", "e", "t", "u", "r", "n", " ", "n", "u", "l", "l", ";", " ", "}">>),
     declares |-> 0, reads |-> 0, assigns |-> TRUE],
    [re |-> Lit(<<"v", "a", "r", " ", "c", "o", "m", "p", "o", "n", "e", "n", "t", "T", "o", "R",
        "e", "n", "d", "e", "r", " ", "=", " ", "f", "u", "n", "c", "t", "i", "o", "n",
        " ">>) \o GroupWordPlus(1)
              \o Lit(<<"(", ")", " ", "{", " ", "r", "e", "t", "u", "r", "n", " ", "n", "u", "l",
                  "l", ";", " ", "}">>),
     declares |-> 0, reads |-> 0, assigns |-> TRUE],
    [re |-> Lit(<<"v", "a", "r", " ", "c", "o", "m", "p", "o", "n", "e", "n", "t", "T", "o", "R",
        "e", "n", "d", "e", "r", " ", "=", " ", "c", "l", "a", "s", "s",
        " ">>) \o GroupWordPlus(1)
              \o Lit(<<" ", "e", "x", "t", "e", "n", "d", "s", " ", "R", "e", "a", "c", "t", ".",
                  "C", "o", "m", "p", "o", "n", "e", "n", "t", " ", "{", " ", "r", "e", "n", "d",
                  "e", "r", "(", ")", " ", "{", " ", "r", "e", "t", "u", "r", "n", " ", "n", "u",
                  "l", "l", ";", " ", "}", " ", "}">>),
     declares |-> 0, reads |-> 0, assigns |-> TRUE]>>

SyntaxError == [ok |-> FALSE, stmts |-> <<>>]

\* the end of the block comment that opens at pos, 0 if it is not closed
CommentEnd(s, pos) ==
  FirstOf({j \in (pos + 3)..Len(s) : s[j - 1] = "*" /\ s[j] = "/"}, 0)

\* the statement of form f matched at pos
StatementAt(f, s, pos, lens) ==
  [declares |-> IF f.declares = 0 THEN {} ELSE {Capture(f.re, f.declares, s, pos, lens)},
   reads |-> IF f.reads = 0 THEN {} ELSE {Capture(f.re, f.reads, s, pos, lens)},
   assigns |-> f.assigns]

\* a statement followed by the statements parsed behind it
Followed(stmt, rest) ==
  IF (stmt.declares \cup stmt.reads) \cap ReservedWords # {} THEN SyntaxError
  ELSE IF rest.ok THEN [ok |-> TRUE, stmts |-> <<stmt>> \o rest.stmts]
  ELSE SyntaxError

\* parsing of the processed code (Babel.transform, then new Function): blank
\* space and block comments are skipped, every statement has one of the forms
RECURSIVE ParseFrom(_, _)
RECURSIVE ParseAt(_, _)
RECURSIVE ParseBehind(_, _)
RECURSIVE ParseForm(_, _, _)
RECURSIVE ParseMatch(_, _, _, _)
ParseFrom(s, pos) == ParseAt(s, pos + Run(SpaceStar[1], s, pos))

ParseAt(s, p) ==
  IF p > Len(s) THEN [ok |-> TRUE, stmts |-> <<>>]
  ELSE IF p < Len(s) /\ s[p] = "/" /\ s[p + 1] = "*" THEN ParseBehind(s, CommentEnd(s, p))
  ELSE ParseForm(s, p, FirstOf({i \in 1..Len(StatementForms) :
                                  MatchAt(StatementForms[i].re, 1, s, p).ok}, 0))

ParseBehind(s, end) == IF end = 0 THEN SyntaxError ELSE ParseFrom(s, end + 1)

ParseForm(s, p, i) ==
  IF i = 0 THEN SyntaxError
  ELSE ParseMatch(s, p, i, MatchAt(StatementForms[i].re, 1, s, p).lens)

ParseMatch(s, p, i, lens) ==
  Followed(StatementAt(StatementForms[i], s, p, lens), ParseFrom(s, p + Total(lens)))

\* what executeComponentCode returns or throws
Element == [ok |-> TRUE, kind |-> "element", name |-> <<>>, available |-> {}]
Throw(kind, name) == [ok |-> FALSE, kind |-> kind, name |-> name, available |-> {}]

\* Object.keys(this) in the wrapper: the wrapper function is applied to a
\* new empty object, and what the code declares are locals of the function
KeysOfThis(declared) == {}

\* the wrapped code applied to the globals: the statements in order, then
\* the wrapper's return of componentToRender or of the last component found
\* in this
RECURSIVE componentFn(_, _, _, _)
componentFn(stmts, g, declared, assigned) ==
  IF stmts = <<>>
  THEN IF assigned \/ KeysOfThis(declared) # {} THEN Element
       ELSE Throw("No component found in the artifact code", <<>>)
  ELSE LET undefinedNames == {n \in Head(stmts).reads : n \notin declared \cup DOMAIN g}
       IN  IF undefinedNames # {}
           THEN Throw("ReferenceError: is not defined", CHOOSE n \in undefinedNames : TRUE)
           ELSE componentFn(Tail(stmts), g, declared \cup Head(stmts).declares,
                            assigned \/ Head(stmts).assigns)

\* the inner try block of executeComponentCode, from Babel.transform on
runProcessed(processedCode, g) ==
  IF Trim(processedCode) = <<>> THEN Throw("Failed to transform component code", <<>>)
  ELSE componentFn(ParseFrom(processedCode, 1).stmts, g, {}, FALSE)

transformAndRun(processedCode, g) ==
  IF ParseFrom(processedCode, 1).ok THEN runProcessed(processedCode, g)
  ELSE Throw("SyntaxError", <<>>)

\* innerCatch with the test for HTML comments before the test for Mermaid
innerCatch_commentsFirst(code, err) ==
  IF looksLikeSvg(code)
  THEN Throw("This appears to be SVG code. Try changing the artifact type to \"SVG Image\".", <<>>)
  ELSE IF Includes(code, <<"<", "!", "-", "-">>)
  THEN Throw("HTML comments (<!-- -->) are not supported in React components. If this is SVG code, change the artifact type to \"SVG Image\".", <<>>)
  ELSE IF looksLikeMermaid(code)
  THEN Throw("This appears to be Mermaid diagram code. Try changing the artifact type to \"Mermaid Diagram\".", <<>>)
  ELSE err

\* the inner catch: the hints for code that looks like SVG or Mermaid
innerCatch(code, err) ==
  IF looksLikeSvg(code)
  THEN Throw("This appears to be SVG code. Try changing the artifact type to \"SVG Image\".", <<>>)
  ELSE IF looksLikeMermaid(code)
  THEN Throw("This appears to be Mermaid diagram code. Try changing the artifact type to \"Mermaid Diagram\".", <<>>)
  ELSE IF Includes(code, <<"<", "!", "-", "-">>)
  THEN Throw("HTML comments (<!-- -->) are not supported in React components. If this is SVG code, change the artifact type to \"SVG Image\".", <<>>)
  ELSE err

\* the outer catch: 'Missing icon: "<name>". Make sure it's properly
\* imported from 'lucide-react'. Available icons: ...'
outerCatch(code, g, err) ==
  IF /\ err.kind = "ReferenceError: is not defined"
     /\ err.name # <<>>
     /\ err.name \notin DOMAIN g
     /\ Includes(code, <<"'", "l", "u", "c", "i", "d", "e", "-", "r", "e", "a", "c", "t", "'">>)
  THEN [ok |-> FALSE, kind |-> "Missing icon", name |-> err.name,
        available |-> DOMAIN LucideIcons]
  ELSE err

\* the two catch blocks around the inner try block
catchBlocks(code, g, run) ==
  IF run.ok THEN run ELSE outerCatch(code, g, innerCatch(code, run))

\* executeComponentCode with its globals object built
executeWith(code, g) == catchBlocks(code, g, transformAndRun(processCode(code), g))

\* executeComponentCode on the text of a component source
executeComponentText(code) == executeWith(code, globals(code))


(***************************************************************************)
(* Specification: executeComponentCode applied to component sources        *)
(***************************************************************************)
\* a component source and its execution
ExecOf(src) ==
  [pc |-> "source", src |-> src, globals |-> <<>>, processedCode |-> <<>>,
   result |-> Throw("none", <<>>)]

\* loadArtifact's call of executeComponentCode(artifact.code): the globals
\* object it builds, the rewritten code it transpiles, and the element it
\* returns or the error it throws
ExecuteComponentCode ==
  /\ exec.pc = "source"
  /\ exec' = [exec EXCEPT !.pc = "done",
                          !.globals = globals(SourceText(exec.src)),
                          !.processedCode = processCode(SourceText(exec.src)),
                          !.result = executeComponentText(SourceText(exec.src))]
  /\ UNCHANGED <<store, route, runner, child, shell, tried, passes, editor>>
  /\ UNCHANGED <<deletion, gallery>>

InitExec ==
  /\ store = <<>>
  /\ route = [page |-> "gallery", id |-> MissingId]
  /\ runner = Unmounted
  /\ child = NoChild
  /\ shell = "ok"
  /\ tried = <<>>
  /\ passes = 0
  /\ editor = ClosedEditor
  /\ exec \in {ExecOf(src) : src \in SourcesUpTo(MaxImports)}
  /\ deletion = NoDeletion
  /\ gallery = RootGallery

NextExec == ExecuteComponentCode

SpecExec == InitExec /\ [][NextExec]_vars


(***************************************************************************)
(* Properties                                                              *)
(***************************************************************************)
\* a render pass for a found artifact has run to the end of loadArtifact
PassDone ==
  /\ route.page = "view"
  /\ runner.pc = "done"
  /\ route.id \in DOMAIN store
  /\ runner.artifact = route.id

\* the declared kind and the text of the artifact of the current pass
DeclaredKind == store[route.id].type
PassText == Text(store[route.id].code)

\* the pass is done and the renderer it mounted has finished its effect
Settled ==
  /\ PassDone
  /\ shell = "ok"
  /\ <<child.kind, child.id>> = <<Displayed(runner).kind, Displayed(runner).id>>
  /\ child.phase = "done"

\* the renderer paths of the pass: the path of the declared kind, then the
\* paths dispatch went on to
PathsOfPass ==
  IF tried # <<>> /\ tried[1] = DeclaredKind THEN tried ELSE <<DeclaredKind>> \o tried

\* the text holds the markup root tag pair: an opening <svg followed by </svg>
HasSvgTagPair(text) ==
  \E i \in 1..Len(text) : \E j \in (i + 1)..Len(text) :
    /\ j + 5 <= Len(text)
    /\ i + 3 <= Len(text)
    /\ SubSeq(text, i, i + 3) = <<"<", "s", "v", "g">>
    /\ SubSeq(text, j, j + 5) = <<"<", "/", "s", "v", "g", ">">>

\* the text holds a markup root tag: <svg, in the case-insensitive tag form too
HasSvgRootTag(text) ==
  \/ Includes(text, <<"<", "s", "v", "g">>)
  \/ MatchesSvgOpenTag(text)

\* the first non-blank line starts with one of the diagram keywords of the
\* classifier's list, whatever the case
DiagramKeywords ==
  {<<"g", "r", "a", "p", "h">>, <<"f", "l", "o", "w", "c", "h", "a", "r", "t">>,
   <<"s", "e", "q", "u", "e", "n", "c", "e", "d", "i", "a", "g", "r", "a", "m">>,
   <<"c", "l", "a", "s", "s", "d", "i", "a", "g", "r", "a", "m">>,
   <<"s", "t", "a", "t", "e", "d", "i", "a", "g", "r", "a", "m">>,
   <<"e", "r", "d", "i", "a", "g", "r", "a", "m">>, <<"j", "o", "u", "r", "n", "e", "y">>,
   <<"g", "a", "n", "t", "t">>, <<"p", "i", "e">>, <<"m", "i", "n", "d", "m", "a", "p">>}

StartsWithDiagramKeyword(text) ==
  \E kw \in DiagramKeywords : StartsWithCI(Trim(text), kw)

\* the keyword anchors as the two classifiers test them: graph and flowchart
\* need whitespace and a letter or digit after the keyword
MatchesDiagramPattern(text) ==
  \/ \E kw \in {<<"g", "r", "a", "p", "h">>, <<"f", "l", "o", "w", "c", "h", "a", "r", "t">>} :
       StartsWithKeywordAndNode(Trim(text), kw)
  \/ \E kw \in DiagramKeywords \ {<<"g", "r", "a", "p", "h">>, <<"f", "l", "o", "w", "c", "h", "a", "r", "t">>} :
       StartsWithCI(Trim(text), kw)

\* the markup signal of the runner's classifier, spelled out: a root tag, or
\* an element word together with an opening and a closing tag
HasMarkupSignal(text) ==
  \/ HasSvgRootTag(Trim(text))
  \/ /\ Includes(text, <<"<">>)
     /\ Includes(text, <<"<", "/">>)
     /\ \E w \in {<<"c", "i", "r", "c", "l", "e">>, <<"r", "e", "c", "t">>,
                  <<"p", "a", "t", "h">>, <<"p", "o", "l", "y", "g", "o", "n">>} : Includes(text, w)

\* the component signal: no markup comment, and a component-shaped token
HasComponentSignal(text) ==
  /\ ~Includes(text, <<"<", "!", "-", "-">>)
  /\ \/ \E w \in {<<"i", "m", "p", "o", "r", "t", " ", "R", "e", "a", "c", "t">>,
                  <<"f", "u", "n", "c", "t", "i", "o", "n">>, <<"c", "l", "a", "s", "s">>,
                  <<"e", "x", "p", "o", "r", "t", " ", "d", "e", "f", "a", "u", "l", "t">>,
                  <<"u", "s", "e", "S", "t", "a", "t", "e">>,
                  <<"u", "s", "e", "E", "f", "f", "e", "c", "t">>} : Includes(text, w)
     \/ /\ Includes(text, <<"r", "e", "t", "u", "r", "n">>)
        /\ Includes(text, <<"<">>)
        /\ Includes(text, <<"/", ">">>)

\* the kind the classifier infers from the code alone, markup first, then
\* diagram, then component
InferredKind(text) ==
  IF HasMarkupSignal(text) THEN "svg"
  ELSE IF MatchesDiagramPattern(text) THEN "mermaid"
  ELSE IF HasComponentSignal(text) THEN "react"
  ELSE "unknown"

\* the path of the declared kind has failed
DeclaredPathFailed ==
  \/ shell = "errorPage"
  \/ runner.renderError # "null"
  \/ /\ child.kind = DeclaredKind
     /\ child.phase = "done"
     /\ child.error # "null"

\* the editor has loaded the artifact and its detection effect has run
EditorSettled ==
  /\ route.page = "edit"
  /\ ~editor.loading
  /\ ~editor.detectPending
  /\ editor.error = ""

\* C1: in a render pass for a found artifact, after the path of the declared
\* kind dispatch goes on to at most one further renderer path, and to none
\* it has already tried.
C1_AtMostOneFallback ==
  PassDone =>
    /\ Len(PathsOfPass) <= 2
    /\ \A i, j \in 1..Len(PathsOfPass) : i # j => PathsOfPass[i] # PathsOfPass[j]

\* C1 witness: a pass that went from the declared react kind to the markup
\* renderer
C1_Witness ==
  /\ PassDone
  /\ DeclaredKind = "react"
  /\ tried = <<"svg">>

\* C2: whatever the declared kind, when its path has failed and the kind
\* inferred from the code is confident and differs from it, the pass has
\* gone on to the path of the inferred kind.
C2_FallbackToInferredKind ==
  (/\ PassDone
   /\ shell = "errorPage" \/ Settled
   /\ DeclaredPathFailed
   /\ InferredKind(PassText) \notin {"unknown", DeclaredKind})
  => \E i \in 1..Len(tried) : tried[i] = InferredKind(PassText)

C4_ExactlyOneOutcome ==
  PassDone =>
    (runner.renderedComponent # NoElement) # (runner.renderError # "null")

\* C5: a declared react artifact whose code default-exports a component that
\* renders is executed on the component path, with no other renderer, and
\* ends rendered.
C5_ValidComponentRendered ==
  (/\ PassDone
   /\ DeclaredKind = "react"
   /\ store[route.id].beh = "component")
  => /\ tried = <<"react">>
     /\ runner.renderedComponent = [kind |-> "react", id |-> route.id]
     /\ runner.renderError = "null"
     /\ Settled => child.markup = "component"

\* C6 as stated: a paired <svg>...</svg> document declared react first fails
\* the component path, then is rendered by the markup renderer.
C6_FailsThenFallsBack ==
  (/\ Settled
   /\ DeclaredKind = "react"
   /\ HasSvgTagPair(PassText))
  => /\ tried = <<"react", "svg">>
     /\ child.kind = "svg"
     /\ child.error = "null"
     /\ child.markup = "sanitized"

\* C6 amended: a paired <svg>...</svg> document declared react is never
\* executed as a component; dispatch selects the markup renderer directly
\* and the pass ends rendered by it, with no render error.
C6_SvgDeclaredReactRendered ==
  (/\ Settled
   /\ DeclaredKind = "react"
   /\ HasSvgTagPair(PassText))
  => /\ tried = <<"svg">>
     /\ runner.renderError = "null"
     /\ child.kind = "svg"
     /\ child.error = "null"
     /\ child.markup = "sanitized"

\* a markup document declared react, shown by the markup renderer
C6_Witness ==
  /\ Settled
  /\ DeclaredKind = "react"
  /\ HasSvgTagPair(PassText)
  /\ child.markup = "sanitized"

\* C7: a code with the markup root tag pair and no diagram keyword on its
\* first non-blank line is rendered by the markup renderer under each of
\* the three declared kinds.
C7_MarkupForcesMarkupPath ==
  (/\ PassDone
   /\ HasSvgTagPair(PassText)
   /\ ~StartsWithDiagramKeyword(PassText))
  => /\ tried # <<>>
     /\ tried[Len(tried)] = "svg"

C10_UnknownKeepsDeclaredKind ==
  /\ (PassDone /\ InferredKind(PassText) = "unknown") => tried = <<DeclaredKind>>
  /\ (EditorSettled /\ editor.autodetectType
        /\ ~detectsSvg(Trim(Text(editor.code)))
        /\ ~MatchesDiagramPattern(Text(editor.code))
        /\ ~detectsReact(Trim(Text(editor.code))))
       => editor.type = store[route.id].type

\* a declared react code without any signal, executed as a component
C10_Witness ==
  /\ PassDone
  /\ DeclaredKind = "react"
  /\ InferredKind(PassText) = "unknown"
  /\ tried = <<"react">>

(***************************************************************************)
(* Properties of executeComponentCode                                      *)
(***************************************************************************)
\* executeComponentCode has run on the component source
ExecDone == exec.pc = "done"

\* the source has one of the import lines
ImportsAnyOf(src, importLines) == \E i \in DOMAIN src.imports : src.imports[i] \in importLines

\* the import lines of the base runtime library: default, default with named
\* specifiers, named-destructure, namespace
ReactImportLines ==
  {"import React from 'react';", "import React, { useState } from 'react';",
   "import { useState } from \"react\";", "import * as React from 'react';"}

\* the import lines of the icon library, in either quote style
LucideImportLines ==
  {"import { Camera } from 'lucide-react';", "import { Nope } from 'lucide-react';",
   "import { Nope } from \"lucide-react\";", "import { PieChart } from 'lucide-react';"}

\* the import lines of an unrecognized module: default, single-line named,
\* multi-line named, namespace, side-effect-only
UnrecognizedImportLines ==
  {"import x from 'y';", "import { a } from 'y';", "import {\n  a\n} from 'y';",
   "import * as y from 'y';", "import 'y';"}

\* the one-line import lines with a from clause that no library rule matches
OtherOneLineImports ==
  {"import * as React from 'react';", "import x from 'y';", "import { a } from 'y';",
   "import * as y from 'y';"}

\* the import lines without a from clause on the line of the import keyword
ImportsWithoutFromOnLine == {"import {\n  a\n} from 'y';", "import 'y';"}

\* the text with its block comments taken out
RECURSIVE CodeOutsideComments(_)
CodeOutsideComments(s) ==
  LET open == FirstOf({j \in 1..(Len(s) - 1) : s[j] = "/" /\ s[j + 1] = "*"}, 0)
  IN  IF open = 0 THEN s
      ELSE IF CommentEnd(s, open) = 0 THEN SubSeq(s, 1, open - 1)
      ELSE SubSeq(s, 1, open - 1)
             \o CodeOutsideComments(SubSeq(s, CommentEnd(s, open) + 1, Len(s)))

\* the text names the module react in quotes, as an import statement does
MentionsReactModule(s) == Includes(s, <<"'", "r", "e", "a", "c", "t", "'">>) \/ Includes(s,
    <<"\"", "r", "e", "a", "c", "t", "\"">>)

\* C11 as stated: the import/export rewrite is idempotent: applied to its own output
\* it returns the output unchanged, whatever the imports of the source.
C11_RewriteIdempotent ==
  ExecDone => processCode(exec.processedCode) = exec.processedCode

\* C11 amended: the rewrite applied to its own output returns it unchanged
\* when the source has no one-line import that only the last, generic rule
\* matches (that rule's comment still holds the import statement, which the
\* rule matches again).
C11_RewriteIdempotentWithoutGenericRule ==
  (ExecDone /\ ~ImportsAnyOf(exec.src, OtherOneLineImports))
    => processCode(exec.processedCode) = exec.processedCode

\* C11 witness: a source with an icon-library import and a default export,
\* both rewritten
C11_Witness ==
  /\ ExecDone
  /\ exec.src.imports = <<"import { Camera } from 'lucide-react';">>
  /\ Includes(exec.processedCode, <<"/", "*", " ", "I", "m", "p", "o", "r", "t", "e", "d", " ",
      "L", "u", "c", "i", "d", "e", " ", "i", "c", "o", "n", "s", ":", " ", "C", "a", "m", "e",
      "r", "a">>)
  /\ Includes(exec.processedCode, <<"v", "a", "r", " ", "c", "o", "m", "p", "o", "n", "e", "n",
      "t", "T", "o", "R", "e", "n", "d", "e", "r", " ", "=", " ", "A", "p", "p", ";">>)

C13_UnrecognizedImportsCommented ==
  (ExecDone /\ ImportsAnyOf(exec.src, UnrecognizedImportLines))
    => /\ ~Includes(CodeOutsideComments(exec.processedCode), <<"i", "m", "p", "o", "r", "t">>)
       /\ Includes(exec.processedCode, <<"/", "*", " ", "i", "m", "p", "o", "r", "t", " ">>)

\* the bodies that default-export a component and read only bound names:
\* export default Name;, a named function, a class, an anonymous function,
\* an arrow function
DefaultExportBodies ==
  {"const App = () => null; export default App;",
   "export default function App() { return null; }",
   "export default class App extends React.Component { render() { return null; } }",
   "export default function() { return null; }", "export default () => null;"}

\* C14: a source that default-exports a component and reads only names of
\* the capability namespace executes to an element, in every form of the
\* default export.
C14_DefaultExportExecutes ==
  (/\ ExecDone
   /\ exec.src.body \in DefaultExportBodies
   /\ ~ImportsAnyOf(exec.src, ImportsWithoutFromOnLine))
    => exec.result.ok

\* C15: a source without a default export that declares a component-shaped
\* function executes to an element of that component; only a source that
\* declares none fails with 'No component found in the artifact code'.
C15_DeclaredComponentFound ==
  (ExecDone /\ ~ImportsAnyOf(exec.src, ImportsWithoutFromOnLine))
    => /\ exec.src.body = "function App() { return React.createElement('div'); }"
            => exec.result.ok
       /\ exec.src.body = "const n = 1;"
            => exec.result.kind = "No component found in the artifact code"

\* C16: a source that imports from the icon library, in either quote style,
\* and reads an icon name that is not bound fails with the missing-icon
\* error that names that icon and lists the available icons.
C16_MissingIconNamed ==
  (/\ ExecDone
   /\ ImportsAnyOf(exec.src, LucideImportLines)
   /\ exec.src.body = "const icons = [Nope]; export default () => null;")
    => /\ exec.result.kind = "Missing icon"
       /\ exec.result.name = <<"N", "o", "p", "e">>
       /\ exec.result.available = DOMAIN LucideIcons

\* C17 as stated: the capability namespace binds every export name of the charting
\* library to the charting library's value, whatever the source imports.
C17_ChartingExportsBound ==
  ExecDone => \A n \in DOMAIN Recharts : n \in DOMAIN exec.globals /\ exec.globals[n] = Recharts[n]

\* the source imports the name from the icon library
ImportsIcon(src, n) ==
  Includes(SourceText(src), <<"i", "m", "p", "o", "r", "t", " ", "{", " ">> \o n \o <<" ", "}",
      " ", "f", "r", "o", "m", " ", "'", "l", "u", "c", "i", "d", "e", "-", "r", "e", "a", "c",
      "t", "'">>)

\* C17 amended: the capability namespace has every export name of the
\* charting library; the name is bound to the charting library's value
\* unless the source imports it from the icon library, which binds it to the
\* icon.
C17_ChartingExportsBoundUnlessIconImported ==
  ExecDone =>
    \A n \in DOMAIN Recharts :
      /\ n \in DOMAIN exec.globals
      /\ exec.globals[n] = IF ImportsIcon(exec.src, n) THEN LucideIcons[n] ELSE Recharts[n]

\* C17 witness: PieChart imported from the icon library and bound to the icon
C17_Witness ==
  /\ ExecDone
  /\ ImportsIcon(exec.src, <<"P", "i", "e", "C", "h", "a", "r", "t">>)
  /\ exec.globals[<<"P", "i", "e", "C", "h", "a", "r", "t">>] = LucideIcons[<<"P", "i", "e", "C",
      "h", "a", "r", "t">>]
  /\ exec.globals[<<"L", "i", "n", "e", "C", "h", "a", "r", "t">>] = Recharts[<<"L", "i", "n",
      "e", "C", "h", "a", "r", "t">>]


\* the error states the catch of renderDiagram gives for errors with the messages
ErrorStates(messages) ==
  (messages \ {""}) \cup {"Failed to render Mermaid diagram"}

\* the code of the artifact lacks the opening or the closing svg tag
LacksSvgTags(id) ==
  \/ ~Includes(Text(store[id].code), <<"<", "s", "v", "g">>)
  \/ ~Includes(Text(store[id].code), <<"<", "/", "s", "v", "g", ">">>)

\* C18: when the code prop of MermaidRenderer changes while an earlier
\* renderDiagram is pending, the superseded result is discarded: once every
\* pending call has finished, the svg and the error displayed were set from
\* the current code.
C18_SupersededResultDiscarded ==
  (/\ child.kind = "mermaid"
   /\ child.phase = "done"
   /\ child.stale = {}
   /\ child.from \in DOMAIN store
   /\ child.id \in DOMAIN store)
  => store[child.from].code = store[child.id].code

C20_InvalidSvgNotSanitized ==
  (/\ child.kind = "svg"
   /\ child.phase = "done"
   /\ child.id \in DOMAIN store
   /\ LacksSvgTags(child.id))
  => /\ child.error = "Invalid SVG: Missing <svg> tags"
     /\ child.markup = ""
     /\ ~child.configured
     /\ ~child.sanitized

\* SVGRenderer has run its effect on a code without svg tags
C20_Witness ==
  /\ child.kind = "svg"
  /\ child.phase = "done"
  /\ child.from = child.id
  /\ child.id \in DOMAIN store
  /\ LacksSvgTags(child.id)
  /\ child.error = "Invalid SVG: Missing <svg> tags"

(***************************************************************************)
(* Properties of passes on one mounted runner and of the editor's save     *)
(***************************************************************************)
\* the latest pass has failed: it executed the code and the execution threw
LatestPassFailed == tried = <<"react">> /\ store[route.id].beh = "broken"

\* C23: a render pass leaves no state behind that a later pass reads: the
\* outcome of a pass on a mounted runner is an outcome of rendering its own
\* artifact on fresh state.
C23_PassesIndependent ==
  PassDone =>
    /\ runner.error = ""
    /\ \E r \in renderArtifact(store[route.id]) :
         /\ runner.renderError = r.message
         /\ runner.renderedComponent =
              IF r.ok THEN [kind |-> r.kind, id |-> route.id] ELSE NoElement

\* C26: across the render passes of one mounted ArtifactRunner, renderError
\* is set only if the latest pass failed.
C26_ErrorBelongsToLatestPass ==
  (PassDone /\ runner.renderError # "null") => LatestPassFailed

\* C27: the editor's detectType and the runner's heuristics agree: the kind
\* detected for a code is the kind the runner's heuristics select for it,
\* and an artifact stored with its detected kind is rendered by the renderer
\* of that kind.
C27_DetectionAgreesWithRunner ==
  (PassDone /\ detectType(PassText) # "null")
  => /\ selectPath("react", PassText) = detectType(PassText)
     /\ DeclaredKind = detectType(PassText) => tried = <<DeclaredKind>>

\* C29: saving an artifact opened in the editor, with the auto-detect option
\* on as it initially is, writes the type that was stored.
C29_SaveKeepsStoredType ==
  [][(/\ route.page = "edit"
      /\ route'.page = "view"
      /\ editor.autodetectType)
     => store'[route.id].type = store[route.id].type]_vars

(***************************************************************************)
(* Properties of the error shown for a failed pass                         *)
(***************************************************************************)
\* the messages of exceptions of the host: of Babel.transform, of new
\* Function and of the evaluation of the code
HostExceptionMessages == {"SyntaxError: unexpected token", "ReferenceError: x is not defined"}

\* the render output shows the error box with the message of a failed pass
ErrorShown ==
  /\ PassDone
  /\ runner.error = ""
  /\ runner.renderError # "null"

\* C21: every failure message the runner displays falls into exactly one
\* category: exactly one of the guidance tests of the error box matches it.
C21_ExactlyOneCategory ==
  ErrorShown => Cardinality(guidanceShown(MessageText(runner.renderError))) = 1

\* C22: every failure of a pass is shown with a message and the guidance of
\* its category, and the message shown is never the message of an exception
\* of the host.
C22_HintAndNoHostMessage ==
  ErrorShown
  => /\ guidanceShown(MessageText(runner.renderError)) # {}
     /\ runner.renderError \notin HostExceptionMessages

(***************************************************************************)
(* Properties of the catch blocks of executeComponentCode                  *)
(***************************************************************************)
\* the messages of the three hints
SvgHint == "This appears to be SVG code. Try changing the artifact type to \"SVG Image\"."
MermaidHint == "This appears to be Mermaid diagram code. Try changing the artifact type to \"Mermaid Diagram\"."
CommentsHint == "HTML comments (<!-- -->) are not supported in React components. If this is SVG code, change the artifact type to \"SVG Image\"."

\* the errors of transpiling and executing, before the catch blocks
OriginalErrors ==
  {"SyntaxError", "ReferenceError: is not defined", "No component found in the artifact code",
   "Failed to transform component code"}

\* C28: when transpiling or executing fails, the error reported is the SVG
\* hint if the code looks like SVG, else the Mermaid hint if it looks like
\* Mermaid, else the HTML-comments hint if it contains '<!--', else the
\* original error; only in the last case can it be the missing-icon error.
C28_CatchPrecedence ==
  (ExecDone /\ ~exec.result.ok)
  => /\ HasMarkupSignal(SourceText(exec.src)) => exec.result.kind = SvgHint
     /\ (/\ ~HasMarkupSignal(SourceText(exec.src))
         /\ MatchesDiagramPattern(SourceText(exec.src)))
        => exec.result.kind = MermaidHint
     /\ (/\ ~HasMarkupSignal(SourceText(exec.src))
         /\ ~MatchesDiagramPattern(SourceText(exec.src))
         /\ Includes(SourceText(exec.src), <<"<", "!", "-", "-">>))
        => exec.result.kind = CommentsHint
     /\ (/\ ~HasMarkupSignal(SourceText(exec.src))
         /\ ~MatchesDiagramPattern(SourceText(exec.src))
         /\ ~Includes(SourceText(exec.src), <<"<", "!", "-", "-">>))
        => exec.result.kind \in OriginalErrors \cup {"Missing icon"}

\* a diagram with an HTML comment has failed with the Mermaid hint
C28_Witness ==
  /\ ExecDone
  /\ exec.src = [imports |-> <<>>, body |-> "graph TD <!-- x -->"]
  /\ exec.result.kind = MermaidHint

\* C24: in the artifact view deleteArtifact is called only while the
\* confirmation dialog is open, the dialog is opened only from the displayed
\* view (its Delete button), closing the dialog while staying in the view
\* changes neither the store nor the calls made, the store loses an artifact
\* only by such a call, and a call is followed by the redirect to the gallery
\* only when it completed without error
C24_DeleteAfterConfirmation ==
  [][/\ deletion' # deletion
          => /\ runner.showDeleteConfirm
             /\ deletion'.calls = deletion.calls + 1
             /\ deletion'.outcome = "rejected" => route' = route
             /\ route' # route => deletion'.outcome = "resolved"
     /\ (~runner.showDeleteConfirm /\ runner'.showDeleteConfirm)
          => (MainViewShown /\ route' = route /\ store' = store)
     /\ (runner.showDeleteConfirm /\ ~runner'.showDeleteConfirm /\ route' = route)
          => (store' = store /\ deletion' = deletion)
     /\ DOMAIN store' # DOMAIN store => deletion' # deletion]_vars

\* a call of deleteArtifact was rejected (no redirect), the next one completed
\* and redirected to the gallery, the artifact gone
C24_Witness ==
  /\ deletion = [calls |-> 2, outcome |-> "resolved"]
  /\ route.page = "gallery"
  /\ 1 \notin DOMAIN store

\* the folders of the views entered from the given ones through the listed
\* subfolders
RECURSIVE Entered(_, _)
Entered(artifacts, seen) ==
  LET next == seen \cup UNION {subFolders(artifacts, f) : f \in seen}
  IN  IF next = seen THEN seen ELSE Entered(artifacts, next)

\* C25: every stored artifact is listed among the artifacts of some view
\* entered from the root view through the listed subfolders
C25_EveryArtifactReachable ==
  (route.page = "gallery" /\ ~gallery.loading)
    => \A id \in DOMAIN store :
         \E f \in Entered(store, {<<>>}) : id \in currentFolderArtifacts(store, f)

\* C30: the last import replaced the collection exactly when its input parsed
\* to an array, input that is not valid JSON threw 'Invalid JSON format', and
\* an import that did not replace the collection threw, and was shown as an
\* error while its message was up
C30_ImportReplacesOrFails ==
  gallery.imported.parse # "none"
    => /\ gallery.imported.replaced <=> gallery.imported.parse = "array"
       /\ gallery.imported.parse = "throws" => gallery.imported.threw = "Invalid JSON format"
       /\ ~gallery.imported.replaced
            => /\ gallery.imported.threw # "null"
               /\ gallery.importMessage \in {"null", "error"}

====
